---------------------------- MODULE Spec2Model ----------------------------
(***************************************************************************)
(* A model of the SUMO live data loop: the detector record and its fix     *)
(* discipline (evalDetector.py), the sliding data window and the gap       *)
(* filler (correctDetector.py), the interval writer (aggregateData.py,     *)
(* default_schema.py), the fusion step (fusion.py) and the replay          *)
(* orchestrator (replay_loops.py).                                         *)
(*                                                                         *)
(* Numbers the program keeps as floats are kept as exact fractions         *)
(* <<numerator, denominator>> with a positive denominator, in lowest       *)
(* terms; Python's None is the pair <<0, 0>>.                              *)
(***************************************************************************)
EXTENDS Integers, Sequences, FiniteSets, TLC

VARIABLES
    \* ---- Data.fix applied to one record (evalDetector.py)
    fxPc,        \* "start" | "fixed"
    fxData,      \* the record
    fxAttr,      \* the attribute to fix
    fxValue,     \* the value handed to fix
    fxInterval,  \* updateInterval in seconds
    fxResult,    \* "none" | "true" | "false" | "raise"
    \* ---- the sliding data window of one update interval (correctDetector.py)
    wPc,         \* "idle" | "ingest": where correctDetector stands
    wZero,       \* DataWindow.zeroIndexTime (NoTime: None)
    wData,       \* DataWindow.data: detector -> list of slots, <<>> or <<record>>
    wOrigData,   \* DataWindow.origData: the raw rows seen (checkdoubling)
    wArgs,       \* correctStart, correctEnd, forecastEnd and isFirst of the call
    wIgnore,     \* identify_errors' ignore: detector -> dates
    wRows,       \* raw rows of the call handled so far
    wHasLkw,     \* Detector option haslkw
    wCheckDoubling, \* Detector option checkdoubling
    wCorrected,  \* the corrected-data table: <<detector, time>> -> written row
    errorOnLastRun, \* setting.errorOnLastRun
    \* ---- history of the window, kept for stating properties
    hLast,       \* what the last step of the window did
    hReported,   \* <<detector, date>> -> the four values last reported for it
    \* ---- the aggregated tables and their writer (aggregateData.py, default_schema.py)
    dbInterval,  \* committed interval rows [table, id, time, quality]
    dbRows,      \* committed data rows [table, id, edge, flow, speed, quality]
    txInterval,  \* the interval rows as the writer's connection sees them
    txRows,      \* the data rows as the writer's connection sees them
    nextId,      \* the next value of the interval table's id sequence
    wrPc,        \* "idle" | "interval" | "quality" | "delete" | "insert"
    wrArgs,      \* the arguments and locals of the running insertAggregated
    rdSeen,      \* what the concurrent reader saw last
    hDone,       \* the last completed insertAggregated, kept for stating properties
    \* ---- the fusion step (fusion.py)
    fuPc,        \* "fuse" | "insert" | "done"
    fuTime,      \* fusionTime of fusion()
    fuLoop,      \* rows["loop"] of the last _fusion
    fuFcd,       \* rows["fcd"] of the last _fusion
    fuReader,    \* the DetectorReader of fusion(): edges with their groups
    \* ---- the replay orchestrator and its children (replay_loops.py)
    roPc,        \* the orchestrator's position in main
    roDet,       \* the orchestrator's detProcess: "none" | "proc" | "dropped"
    roSim,       \* the orchestrator's simProcess
    rpDet,       \* the detector child process
    rpSim,       \* the simulation child process
    \* ---- one call of roundToMinute (tools.py)
    rnPc,        \* "start" | "done"
    rnDate,      \* date, in seconds since the first midnight
    rnInterval,  \* interval, a timedelta in seconds
    rnType,      \* roundType
    rnResult,    \* what the call gave: the date returned, or the error raised
    \* ---- the scheduler and the detector iteration it runs (main.py, correctDetector.py)
    loPc,        \* "init" | "loop" | "main" | "while" | "ended" | "exit" | "dead"
    loCfg,       \* the configuration: begin, end, repeat, delay, lookbacks
    loStart,     \* setting.startTime
    loNow,       \* datetime.now()
    loEndReached, \* endTimeReached
    loContinue,  \* doContinue
    loCall,      \* the last invocation of the iteration function
    loMain,      \* the locals of the running correctDetector.main
    loPrev,      \* how the iteration before ended, kept for stating properties
    \* ---- the step runner (step.py)
    stPc,        \* "idle" | "opened" | "finish": where pythonStep stands
    stArgs,      \* the call: its number, checkDir given or not, a function with a connection or not
    stStderr,    \* sys.stderr: "process" | "file" | "tee"
    stFile,      \* the capture file of the step: "none" | "open" | "closed" | "dropped"
    stConn,      \* the connection of the function: "none" | "open" | "closed" | "dropped"
    stEnd,       \* how the last pythonStep ended
    stStep,      \* setting.step
    stUnclosed,  \* files and connections left without close() so far
    \* ---- copyBackupClean (simulationRun.py)
    cpPc,        \* "lock" | "copy" | "unlock" | "clean" | "done" | "raised"
    cpExists,    \* the result files present in simOutputDir
    cpDir,       \* the viewer directory of the running pass
    cpFile,      \* the index of the result file to copy next
    cpLocks,     \* the viewer directories that hold a lock.txt
    cpCopied,    \* <<directory, file>> of the copies made
    cpUnlocked,  \* the copies made while the directory held no lock.txt
    \* ---- the simulation iteration (simulationRun.py) under its scheduler
    smPc,        \* where simulationRun.main stands; "call": the scheduler's turn
    smOpt,       \* the options: clearState, emissionOutput, clean, overlap, forecast
    smStart,     \* setting.startTime
    smArgs,      \* the call: its number and doStartEmpty as passed
    smLocal,     \* the locals of main: doStartEmpty, simBegin, statefile
    smFiles,     \* the start times whose output directory holds a state file
    smDumps,     \* the start times whose output directory holds a dump file
    smCfg,       \* the pre.sumocfg written last
    smDb,        \* the database steps run in the iteration
    smResult,    \* what the last call of main gave: "none" | "true" | "false" | "raised"
    \* ---- extrapolation.main for one edge (extrapolation.py)
    exPc,        \* "off" | "main" | "predict" | "done"
    exArgs,      \* start, end, intervalLength and the edge's loaded timeValues
    exLocal,     \* offsets, knownTime and the target times still to predict
    exPred,      \* the predictions made, in order
    \* ---- Data.check applied to one raw record (evalDetector.py)
    ckPc,        \* "start" | "checked"
    ckIn,        \* the record before check, updateInterval, hasLKW
    ckOut,       \* the record after check
    \* ---- the dynamic route probes (routeDistributions.py)
    DYNAMIC,     \* the edges that get a routeProbe
    INVALID,     \* the edges found below the threshold at the last reset
    LAST_RESET,  \* the time of the last reset, NoTime for None
    dyFile,      \* the edges of the routeProbe elements of the file written last
    dyLast,      \* the calls so far, the last call and the rows of the last reset
    \* ---- aggregateFCD (aggregateData.py)
    agPc,        \* "rows" | "done" | "raised"
    agArgs,      \* start, period, intervalLength, the observation times in order
    agLocal,     \* detReaders, nextInterval, nextPeriod, rows handled
    agWritten    \* the intervals insertAggregated was called for, in order

fxVars == <<fxPc, fxData, fxAttr, fxValue, fxInterval, fxResult>>

wVars == <<wPc, wZero, wData, wOrigData, wArgs, wIgnore, wRows, wHasLkw,
           wCheckDoubling, wCorrected, errorOnLastRun, hLast, hReported>>

dbVars == <<dbInterval, dbRows, txInterval, txRows, nextId, wrPc, wrArgs,
            rdSeen, hDone>>

fuVars == <<fuPc, fuTime, fuLoop, fuFcd, fuReader>>

rpVars == <<roPc, roDet, roSim, rpDet, rpSim>>

rnVars == <<rnPc, rnDate, rnInterval, rnType, rnResult>>

\* the loops' own state: scheduler, step runner, simulation iteration
loVars == <<loPc, loCfg, loStart, loNow, loEndReached, loContinue, loCall, loMain,
            loPrev>>

stVars == <<stPc, stArgs, stStderr, stFile, stConn, stEnd, stStep, stUnclosed>>

cpVars == <<cpPc, cpExists, cpDir, cpFile, cpLocks, cpCopied, cpUnlocked>>

smVars == <<smPc, smOpt, smStart, smArgs, smLocal, smFiles, smDumps, smCfg, smDb,
            smResult>>

exVars == <<exPc, exArgs, exLocal, exPred>>

ckVars == <<ckPc, ckIn, ckOut>>

dyVars == <<DYNAMIC, INVALID, LAST_RESET, dyFile, dyLast>>

agVars == <<agPc, agArgs, agLocal, agWritten>>

\* single functions that are checked on their own
xtVars == <<ckVars, dyVars, agVars>>

scVars == <<rnVars, loVars, stVars, cpVars, smVars, exVars, xtVars>>

\* the state of the detector-side computations and of the replay
coreVars == <<fxVars, wVars, dbVars, fuVars, rpVars>>

vars == <<fxVars, wVars, dbVars, fuVars, rpVars, scVars>>

-----------------------------------------------------------------------------
(* Fractions *)

None == <<0, 0>>

IsNone(a) == a[2] = 0

Abs(n) == IF n < 0 THEN -n ELSE n

RECURSIVE Gcd(_, _)
Gcd(a, b) == IF b = 0 THEN a ELSE Gcd(b, a % b)

\* the fraction n/d (d # 0) in lowest terms with a positive denominator
Frac(n, d) ==
    LET g == Gcd(Abs(n), Abs(d))
        s == IF d < 0 THEN -1 ELSE 1
    IN  <<(s * n) \div g, (s * d) \div g>>

R(n) == <<n, 1>>

RLt(a, b) == a[1] * b[2] < b[1] * a[2]
RLe(a, b) == a[1] * b[2] <= b[1] * a[2]
RGt(a, b) == RLt(b, a)
RGe(a, b) == RLe(b, a)
RAdd(a, b) == Frac(a[1] * b[2] + b[1] * a[2], a[2] * b[2])
RSub(a, b) == Frac(a[1] * b[2] - b[1] * a[2], a[2] * b[2])
RMul(a, b) == Frac(a[1] * b[1], a[2] * b[2])
\* a / b for b # 0
RDiv(a, b) == Frac(a[1] * b[2], a[2] * b[1])
IsZero(a) == a[2] # 0 /\ a[1] = 0

-----------------------------------------------------------------------------
(* evalDetector.py: constants and the error classifier *)

MAX_FLOW == 2500

MAX_SPEED_PKW == 250
MAX_SPEED_LKW == 120
LENGTH_PKW == 5
LENGTH_LKW == 10

\* dbSchema.EvalDetector.kmhMultiplier is 1.0: MAX_SPEED[type] = 250 or 120
MAX_SPEED(type) == IF type = "PKW" THEN MAX_SPEED_PKW ELSE MAX_SPEED_LKW
LENGTH(type) == IF type = "PKW" THEN LENGTH_PKW ELSE LENGTH_LKW

attrs == <<"qPKW", "qLKW", "vPKW", "vLKW">>
AttrSet == {"qPKW", "qLKW", "vPKW", "vLKW"}

is_flow_attr(attr) == attr \in {"qPKW", "qLKW"}
TypeOf(attr) == IF attr \in {"qPKW", "vPKW"} THEN "PKW" ELSE "LKW"
FlowAttr(type) == IF type = "PKW" THEN "qPKW" ELSE "qLKW"
SpeedAttr(type) == IF type = "PKW" THEN "vPKW" ELSE "vLKW"

\* q * 3600 / updateInterval.seconds
FlowPerHour(q, u) == RDiv(RMul(q, R(3600)), R(u))

\* maxFlowPerHour(v, l) = v * 3600 / (v * 0.4 + l): its denominator, times 5
MaxFlowDen(v, l) == RAdd(RMul(R(2), v), R(5 * l))

\* maxFlowPerHour(v, l), for a denominator that is not zero
maxFlowPerHour(v, l) == RDiv(RMul(v, R(18000)), MaxFlowDen(v, l))

_getDataError(q, v, vMax, l, u) ==
    IF IsNone(q) THEN 1
    ELSE IF RLt(q, R(0)) THEN 2
    ELSE IF IsNone(v) THEN 0
    ELSE IF RLt(v, R(0)) THEN 2
    ELSE IF RGt(v, R(0)) /\ IsZero(q) THEN 5
    ELSE IF RGt(FlowPerHour(q, u), R(MAX_FLOW)) \/ RGt(v, R(vMax)) THEN 7
    ELSE IF RGt(v, R(0)) /\ RGt(FlowPerHour(q, u), maxFlowPerHour(v, l)) THEN 8
    ELSE 0

isDataError(errorCode) == errorCode \in {1, 2, 3, 4, 5, 7, 8}

\* v / maxLaneSpeed > 1.25
SpeedTooHigh(v, maxLaneSpeed) == RGt(RMul(R(4), v), R(5 * maxLaneSpeed))

_getSpeedError(q, v, maxLaneSpeed) ==
    IF IsNone(q) \/ (RGt(q, R(0)) /\ IsNone(v)) THEN 1
    ELSE IF IsNone(v) THEN 0
    ELSE IF RGt(q, R(0)) /\ IsZero(v) THEN 6
    ELSE IF SpeedTooHigh(v, maxLaneSpeed) THEN 9
    ELSE 0

-----------------------------------------------------------------------------
(* evalDetector.py: class Data *)

NO_ORIG_DATA == -1
FORECAST_DATA == -2

NoDate == -1

\* Data(origID, detectorID, origDate, qKFZ, qLKW, vPKW, vLKW)
Data(origID, origDate, qKFZ, qLKW, vPKW, vLKW) ==
    [origID |-> origID, origDate |-> origDate,
     qPKW |-> IF ~IsNone(qKFZ) /\ ~IsNone(qLKW) THEN RSub(qKFZ, qLKW) ELSE qKFZ,
     qLKW |-> qLKW, vPKW |-> vPKW, vLKW |-> vLKW,
     errorPKW |-> 0, errorLKW |-> 0, fixed |-> {}, toBeWritten |-> TRUE]

hasOrigID(d) == d.origID >= 0

getIfNotFixed(d, attr) ==
    IF ~hasOrigID(d) \/ attr \in d.fixed THEN None ELSE d[attr]

\* the checks of Data.fix: "true", "false", or "raise" (ZeroDivisionError in
\* maxFlowPerHour)
FixOutcome(d, attr, value, u) ==
    IF is_flow_attr(attr)
    THEN IF RLt(value, R(0)) THEN "false"
         ELSE IF RGt(FlowPerHour(value, u), R(MAX_FLOW)) THEN "false"
         ELSE "true"
    ELSE LET type == TypeOf(attr)
             flow == d[FlowAttr(type)]
         IN  IF IsNone(flow) THEN "false"
             ELSE IF IsZero(flow)
                  THEN IF RGt(value, R(0)) THEN "false" ELSE "true"
             ELSE IF _getSpeedError(flow, value, MAX_SPEED(type)) > 0 THEN "false"
             ELSE IF IsZero(MaxFlowDen(value, LENGTH(type))) THEN "raise"
             ELSE IF RGt(FlowPerHour(flow, u), maxFlowPerHour(value, LENGTH(type)))
                  THEN "false"
             ELSE "true"

\* the record after Data.fix(attr, value, updateInterval)
FixData(d, attr, value, u) ==
    IF FixOutcome(d, attr, value, u) = "true"
    THEN [d EXCEPT ![attr] = value, !.fixed = @ \cup {attr}, !.toBeWritten = TRUE]
    ELSE d

unfix(d) ==
    IF d.fixed # {}
    THEN [d EXCEPT !.qPKW = IF "qPKW" \in d.fixed THEN None ELSE @,
                   !.qLKW = IF "qLKW" \in d.fixed THEN None ELSE @,
                   !.vPKW = IF "vPKW" \in d.fixed THEN None ELSE @,
                   !.vLKW = IF "vLKW" \in d.fixed THEN None ELSE @,
                   !.fixed = {}, !.toBeWritten = TRUE]
    ELSE d

\* one vehicle type's part of Data.check: <<error, flow, speed>>
CheckType(q, v, type, u) ==
    LET e == _getDataError(q, v, MAX_SPEED(type), LENGTH(type), u)
    IN  IF e > 0 THEN <<e, None, None>>
        ELSE LET s == _getSpeedError(q, v, MAX_SPEED(type))
             IN  IF s > 0 \/ IsZero(q) THEN <<s, q, None>> ELSE <<s, q, v>>

check(d, u, hasLKW) ==
    LET p == CheckType(d.qPKW, d.vPKW, "PKW", u)
        l == CheckType(d.qLKW, d.vLKW, "LKW", u)
        d1 == [d EXCEPT !.errorPKW = p[1], !.qPKW = p[2], !.vPKW = p[3]]
    IN  IF hasLKW
        THEN [d1 EXCEPT !.errorLKW = l[1], !.qLKW = l[2], !.vLKW = l[3]]
        ELSE d1

set_hanging(d, hanging) ==
    IF hanging
    THEN [d EXCEPT !.errorPKW = 4, !.qPKW = None, !.vPKW = None,
                   !.errorLKW = 4, !.qLKW = None, !.vLKW = None]
    ELSE d

\* int(round(x)) of Python 3: to the nearest integer, a tie to the even one
round_int(x) ==
    LET f == (2 * x[1] + x[2]) \div (2 * x[2])
    IN  IF (2 * x[1] + x[2]) % (2 * x[2]) = 0 /\ f % 2 = 1 THEN f - 1 ELSE f

\* Data._getQuality(date, hasLKW)
AttrQuality(attr, hasLKW) ==
    IF hasLKW
    THEN CASE attr = "qPKW" -> 70 [] attr = "qLKW" -> 10
           [] attr = "vPKW" -> 10 [] OTHER -> 8
    ELSE CASE attr = "qPKW" -> 80 [] attr = "qLKW" -> 0
           [] attr = "vPKW" -> 18 [] OTHER -> 0

_getQuality(d, date, hasLKW) ==
    LET part(attr) ==
            IF ~IsNone(d[attr])
               \/ (~is_flow_attr(attr) /\ IsZero(d[FlowAttr(TypeOf(attr))]))
            THEN IF attr \in d.fixed THEN AttrQuality(attr, hasLKW) \div 2
                 ELSE AttrQuality(attr, hasLKW)
            ELSE 0
    IN  (IF date = d.origDate THEN 2 ELSE 0)
        + part("qPKW") + part("qLKW") + part("vPKW") + part("vLKW")

\* Data.toValues with dbSchema.EvalDetector.toValues: the row written for a
\* record (origID Null is NO_ORIG_DATA in the model's table)
toValues(d, date, hasLKW) ==
    [origID |-> IF d.origID \in {NO_ORIG_DATA, FORECAST_DATA} THEN NO_ORIG_DATA
                ELSE d.origID,
     correctionType |-> IF d.origID = NO_ORIG_DATA THEN "missing"
                        ELSE IF d.origID = FORECAST_DATA THEN "forecast"
                        ELSE "existing",
     qPKW |-> IF IsNone(d.qPKW) THEN None ELSE R(round_int(d.qPKW)),
     qLKW |-> IF IsNone(d.qLKW) THEN None ELSE R(round_int(d.qLKW)),
     vPKW |-> d.vPKW, vLKW |-> d.vLKW,
     quality |-> _getQuality(d, date, hasLKW)]

-----------------------------------------------------------------------------
(* tools.py: rounding of times (seconds since midnight of day 0) *)

DaySeconds == 86400

daySecond(t) == t % DaySeconds

RoundSeconds(t, interval, add2) ==
    IF daySecond(t) % interval = 0 THEN t
    ELSE (t - daySecond(t)) + interval * ((2 * daySecond(t) + add2) \div (2 * interval))

\* roundToMinute(date, interval, rounding)
roundDown(t, interval) == RoundSeconds(t, interval, 0)
roundHalfUp(t, interval) == RoundSeconds(t, interval, interval)
roundUp(t, interval) == RoundSeconds(t, interval, 2 * interval)

-----------------------------------------------------------------------------
(* correctDetector.py: the sliding data window *)

\* the update interval of the window, in seconds
UpdateInterval == 900

MAX_GAP_TIME == 1800

NoTime == -1

\* Python list access with indices from 0; a negative index counts from the end
PyPos(l, i) == IF i < 0 THEN Len(l) + i + 1 ELSE i + 1
At(l, i) == l[PyPos(l, i)]
Put(l, i, v) == [l EXCEPT ![PyPos(l, i)] = v]

\* l[a:b] for 0 <= a, 0 <= b
Slice(l, a, b) ==
    LET e == IF b < Len(l) THEN b ELSE Len(l)
    IN  IF a >= e THEN <<>> ELSE [k \in 1..(e - a) |-> l[a + k]]

Nulls(n) == [k \in 1..n |-> <<>>]

Max(a, b) == IF a > b THEN a ELSE b
Min(a, b) == IF a < b THEN a ELSE b

\* dateToIndex: timedelta.seconds is the seconds part of the difference, days
\* dropped
dateToIndex(date, zero) == ((date - zero) % DaySeconds) \div UpdateInterval

\* prepare_dataLists without the drop of the prefix before newZeroTime
prepare_dataLists_keepPrefix(zero, data, newZeroTime, endTime) ==
    LET z == IF zero = NoTime THEN newZeroTime ELSE zero
        keepEnd == dateToIndex(endTime, z) - dateToIndex(newZeroTime, z)
    IN  [det \in DOMAIN data |->
            Slice(data[det], 0, keepEnd)
                \o Nulls(Max(0, keepEnd - Len(data[det])))]

\* DataWindow.prepare_dataLists: the lists after the call (the assertion is the
\* caller's guard)
prepare_dataLists(zero, data, newZeroTime, endTime) ==
    LET z == IF zero = NoTime THEN newZeroTime ELSE zero
        keepStart == dateToIndex(newZeroTime, z)
        keepEnd == dateToIndex(endTime, z)
    IN  [det \in DOMAIN data |->
            Slice(data[det], keepStart, keepEnd)
                \o Nulls(Max(0, keepEnd - Len(data[det])))]

\* the time of slot index under zeroIndexTime zero (enumerate_with_time)
SlotTime(zero, index) == zero + UpdateInterval * index

emptyData(origID) ==
    [Data(origID, NoDate, None, None, None, None)
        EXCEPT !.toBeWritten = (origID # FORECAST_DATA)]

\* fixedData with errorCode None, as load_previous_corrections calls it
fixedData(origID, qPKW, qLKW, vPKW, vLKW) ==
    [emptyData(origID) EXCEPT !.qPKW = qPKW, !.qLKW = qLKW, !.vPKW = vPKW,
                              !.vLKW = vLKW,
                              !.fixed = IF origID = 0 THEN AttrSet ELSE {}]

Occupied(l, i) == At(l, i) # <<>>
Rec(l, i) == At(l, i)[1]

\* whether one of the slots dateIndex-2 .. dateIndex-6 holds a record
NotInterrupted(l, dateIndex) ==
    \E offset \in 2..6 : offset <= dateIndex /\ Occupied(l, dateIndex - offset)

\* fixDate that moves a colliding record two slots forward
fixDate_twoForward(l, date, zero, ignore) ==
    LET dateIndex == dateToIndex(date, zero)
    IN  IF dateIndex < Len(l) /\ Occupied(l, dateIndex)
        THEN [data |-> l, index |-> dateIndex + 2, ignore |-> ignore]
        ELSE [data |-> l, index |-> dateIndex, ignore |-> ignore]

\* fixDate: the list, the index to store at, and the ignore list afterwards
fixDate(l, date, zero, ignore) ==
    LET dateIndex == dateToIndex(date, zero)
        prev == dateIndex - 1
        next == dateIndex + 1
        same == [data |-> l, index |-> dateIndex, ignore |-> ignore]
    IN  IF ~(dateIndex < Len(l) /\ Occupied(l, dateIndex)) THEN same
        ELSE IF ~Occupied(l, prev)
             THEN [same EXCEPT !.data = Put(l, prev, At(l, dateIndex))]
        ELSE IF Rec(l, dateIndex).origDate # date THEN same
        ELSE IF ~(next < Len(l) /\ Occupied(l, next))
             THEN [same EXCEPT !.index = next]
        ELSE IF NotInterrupted(l, dateIndex)
             THEN [same EXCEPT !.index = next]
        ELSE [data |-> Put(Put(Put(l, prev, <<>>), dateIndex, <<>>), next, <<>>),
              index |-> dateIndex, ignore |-> ignore \cup {date}]

HANG_OFFSET == 5

\* is_hanging(detData, dateToCheck)
is_hanging(l, dateToCheck) ==
    /\ dateToCheck - HANG_OFFSET >= 0
    /\ \A attr \in AttrSet :
         LET value == getIfNotFixed(Rec(l, dateToCheck), attr)
         IN  /\ ~IsNone(value)
             /\ RGt(value, R(0))
             /\ \A i \in (dateToCheck - HANG_OFFSET)..(dateToCheck - 1) :
                   /\ Occupied(l, i)
                   /\ value = getIfNotFixed(Rec(l, i), attr)

\* find_gaps: the end of the gap of attr that starts at index (below end)
RECURSIVE GapEnd(_, _, _, _)
GapEnd(l, attr, index, end) ==
    IF index < end /\ IsNone(Rec(l, index)[attr])
    THEN GapEnd(l, attr, index + 1, end)
    ELSE index

\* valid_indices_and_data: the indices in [start, end) with a value that was
\* not fixed (the values are read from the list at these indices)
valid_indices(l, attr, start, end) ==
    {i \in Max(start, 0)..(Min(end, Len(l)) - 1) :
        Occupied(l, i) /\ ~IsNone(getIfNotFixed(Rec(l, i), attr))}

RECURSIVE SumInt(_)
SumInt(X) ==
    IF X = {} THEN 0
    ELSE LET i == CHOOSE i \in X : TRUE IN i + SumInt(X \ {i})

RECURSIVE SumSq(_)
SumSq(X) ==
    IF X = {} THEN 0
    ELSE LET i == CHOOSE i \in X : TRUE IN i * i + SumSq(X \ {i})

RECURSIVE SumY(_, _, _)
SumY(l, attr, X) ==
    IF X = {} THEN R(0)
    ELSE LET i == CHOOSE i \in X : TRUE
         IN  RAdd(Rec(l, i)[attr], SumY(l, attr, X \ {i}))

RECURSIVE SumXY(_, _, _)
SumXY(l, attr, X) ==
    IF X = {} THEN R(0)
    ELSE LET i == CHOOSE i \in X : TRUE
         IN  RAdd(RMul(R(i), Rec(l, i)[attr]), SumXY(l, attr, X \ {i}))

\* Polynomial.fit(x, y, 1) evaluated at x0: the least-squares line through the
\* points (i, l[i].attr), i in X, for at least two points (exact arithmetic,
\* where the program computes in floating point)
FitValue(l, attr, X, x0) ==
    LET n == Cardinality(X)
        sx == SumInt(X)
        den == n * SumSq(X) - sx * sx
        sy == SumY(l, attr, X)
        slope == RDiv(RSub(RMul(R(n), SumXY(l, attr, X)), RMul(R(sx), sy)), R(den))
        intercept == RDiv(RSub(sy, RMul(slope, R(sx))), R(n))
    IN  RAdd(intercept, RMul(slope, R(x0)))

\* a gap filler that gives up on every gap of more than one slot
WithinMaxGap_oneSlot(size) == size <= 1

\* MAX_GAP = MAX_GAP_TIME.seconds / updateInterval.seconds, a float:
\* size <= MAX_GAP
WithinMaxGap(size) == size * UpdateInterval <= MAX_GAP_TIME

\* forecast mode: the size the gap is shrunk to, given the support X found in
\* [gapStart - 2*size, gapStart)
RECURSIVE ShrinkSize(_, _, _)
ShrinkSize(X, gapStart, size) ==
    IF size > 0 /\ Cardinality({i \in X : i >= gapStart - 2 * size}) < size
    THEN ShrinkSize(X, gapStart, size - 1)
    ELSE size

\* the support points of the fit for a gap, {} when nothing is to be fitted,
\* and the end of the part of the gap that is filled
GapPlan(l, attr, gapStart, gapEnd, forecast) ==
    LET size == gapEnd - gapStart
    IN  IF forecast
        THEN LET X == valid_indices(l, attr, gapStart - 2 * size, gapStart)
                 shrunk == ShrinkSize(X, gapStart, size)
                 support == Cardinality({i \in X : i >= gapStart - 2 * shrunk})
             IN  [x |-> IF support < 2 THEN {} ELSE X, gapEnd |-> gapStart + shrunk]
        ELSE LET before == valid_indices(l, attr, gapStart - size, gapStart)
                 after == valid_indices(l, attr, gapEnd, gapEnd + size)
                 \* len >= max(size / 2, 1), size / 2 a float
                 enough(S) == 2 * Cardinality(S) >= size /\ Cardinality(S) >= 1
             IN  [x |-> IF WithinMaxGap(size) /\ enough(before) /\ enough(after)
                        THEN before \cup after ELSE {},
                  gapEnd |-> gapEnd]

\* the loop "for x in range(gapStart, gapEnd): detData[x].fix(...)": the list
\* afterwards, and whether fix raised on the way
RECURSIVE FillGap(_, _, _, _, _, _)
FillGap(st, attr, index, gapEnd, base, X) ==
    IF index >= gapEnd \/ st.raised THEN st
    ELSE LET value == FitValue(base, attr, X, index)
             rec == Rec(st.data, index)
             out == FixOutcome(rec, attr, value, UpdateInterval)
         IN  FillGap([data |-> Put(st.data, index,
                                   <<FixData(rec, attr, value, UpdateInterval)>>),
                      raised |-> out = "raise"],
                     attr, index + 1, gapEnd, base, X)

\* the loop over find_gaps(detData, attr, start, end) for one attribute
RECURSIVE FixAttr(_, _, _, _, _)
FixAttr(st, attr, index, end, forecast) ==
    IF index >= end \/ st.raised THEN st
    ELSE IF ~IsNone(Rec(st.data, index)[attr])
         THEN FixAttr(st, attr, index + 1, end, forecast)
    ELSE LET gapEnd == GapEnd(st.data, attr, index, end)
             plan == GapPlan(st.data, attr, index, gapEnd, forecast)
             filled == IF plan.x = {} THEN st
                       ELSE FillGap(st, attr, index, plan.gapEnd, st.data, plan.x)
         IN  FixAttr(filled, attr, gapEnd, end, forecast)

\* polynomialFix(detData, start, end, fix_counts, forecast)
RECURSIVE polynomialFixFrom(_, _, _, _, _)
polynomialFixFrom(st, k, start, end, forecast) ==
    IF k > Len(attrs) THEN st
    ELSE polynomialFixFrom(FixAttr(st, attrs[k], start, end, forecast),
                           k + 1, start, end, forecast)

polynomialFix(l, start, end, forecast) ==
    polynomialFixFrom([data |-> l, raised |-> FALSE], 1, start, end, forecast)

\* the unfix loop of fixGaps over one detector's list
UnfixRange(l, fixStartIndex, fixEndIndex, emptyID) ==
    [k \in 1..Len(l) |->
        IF k - 1 >= fixStartIndex /\ k - 1 < fixEndIndex
        THEN IF l[k] = <<>> THEN <<emptyData(emptyID)>> ELSE <<unfix(l[k][1])>>
        ELSE l[k]]

\* the detectors of the update interval, as DataWindow.reset reads them
NumDets == 1
Dets == 1..NumDets

\* fixGaps(fixStart, fixEnd, forecast) over the detectors from det on
RECURSIVE fixGapsFrom(_, _, _, _, _)
fixGapsFrom(st, det, fixStartIndex, fixEndIndex, forecast) ==
    IF det \notin DOMAIN st.data \/ st.raised THEN st
    ELSE LET emptyID == IF forecast THEN FORECAST_DATA ELSE NO_ORIG_DATA
             unfixed == UnfixRange(st.data[det], fixStartIndex, fixEndIndex, emptyID)
             fixed == polynomialFix(unfixed, fixStartIndex, fixEndIndex, forecast)
         IN  fixGapsFrom([data |-> [st.data EXCEPT ![det] = fixed.data],
                          raised |-> fixed.raised],
                         det + 1, fixStartIndex, fixEndIndex, forecast)

fixGaps(data, zero, fixStart, fixEnd, forecast) ==
    fixGapsFrom([data |-> data, raised |-> FALSE], 1,
                dateToIndex(fixStart, zero), dateToIndex(fixEnd, zero), forecast)

\* write_corrected visits the slots from correctStart on, detector by detector
\* (the detectors are numbered in the order of DataWindow.data)
SlotsFrom(data, start) ==
    UNION {{<<det, i>> : i \in start..(Len(data[det]) - 1)} : det \in DOMAIN data}

SlotBefore(a, b) == a[1] < b[1] \/ (a[1] = b[1] /\ a[2] < b[2])

\* the slots visited before a null slot makes data.toValues raise
VisitedSlots(data, start) ==
    {s \in SlotsFrom(data, start) :
        \A b \in SlotsFrom(data, start) :
            ~Occupied(data[b[1]], b[2]) => SlotBefore(s, b)}

\* write_corrected(conn, correctStart, hasLkw): the lists and the
\* corrected-data table afterwards, and whether it raised.  The table is
\* written by INSERT ... ON CONFLICT (data_time, det_id) DO UPDATE SET the
\* values and the quality, after all slots were visited.
write_corrected(table, data, zero, correctStart, hasLkw) ==
    LET start == dateToIndex(correctStart, zero)
        visited == VisitedSlots(data, start)
        raised == visited # SlotsFrom(data, start)
        written == {s \in visited : Rec(data[s[1]], s[2]).toBeWritten}
        keys == {<<s[1], SlotTime(zero, s[2])>> : s \in written}
        row(k) == toValues(Rec(data[k[1]], (k[2] - zero) \div UpdateInterval),
                           k[2], hasLkw)
    IN  [data |-> [det \in DOMAIN data |->
                     [k \in 1..Len(data[det]) |->
                        IF <<det, k - 1>> \in visited
                        THEN <<[data[det][k][1] EXCEPT !.toBeWritten = FALSE]>>
                        ELSE data[det][k]]],
         table |-> IF raised THEN table
                   ELSE [k \in DOMAIN table \cup keys |->
                           IF k \notin keys THEN table[k]
                           ELSE IF k \in DOMAIN table
                                THEN [row(k) EXCEPT
                                        !.origID = table[k].origID,
                                        !.correctionType = table[k].correctionType]
                                ELSE row(k)],
         raised |-> raised]

\* load_previous_corrections(conn, start, end, updateInterval): the rows are
\* read in time order; a row without original id makes Data.isOrigID raise
\* (None >= 0), and the rows before it are loaded.  firstOfTie: the detectors
\* whose row of that time comes before the raising row.
PrevRows(table, start, end) == {k \in DOMAIN table : k[2] >= start /\ k[2] < end}

PrevRaises(table, start, end) ==
    \E k \in PrevRows(table, start, end) : table[k].origID = NO_ORIG_DATA

PrevLoaded(table, start, end, firstOfTie) ==
    LET rows == PrevRows(table, start, end)
        bad == {k \in rows : table[k].origID = NO_ORIG_DATA}
    IN  IF bad = {} THEN rows
        ELSE LET t == CHOOSE t \in {k[2] : k \in bad} : \A k \in bad : t <= k[2]
             IN  {k \in rows \ bad : k[2] < t \/ (k[2] = t /\ k[1] \in firstOfTie)}

load_previous_corrections(table, data, zero, start, end, firstOfTie) ==
    LET loaded == PrevLoaded(table, start, end, firstOfTie)
    IN  [det \in DOMAIN data |->
            [k \in 1..Len(data[det]) |->
                LET key == <<det, SlotTime(zero, k - 1)>>
                IN  IF key \in loaded
                    THEN <<fixedData(table[key].origID, table[key].qPKW,
                                     table[key].qLKW, table[key].vPKW,
                                     table[key].vLKW)>>
                    ELSE data[det][k]]]

-----------------------------------------------------------------------------
(* The parts of the program that a specification leaves out stand still *)

NoWrite == [table |-> "none", time |-> 0, reader |-> <<>>, index |-> 0,
            newId |-> 0, pre |-> <<>>]

NoRead == [during |-> FALSE, view |-> <<>>, pre |-> <<>>, post |-> <<>>]

NoDone == [calls |-> 0, table |-> "none", time |-> 0, reader |-> <<>>,
           index |-> 0, rows |-> <<>>, totalQuality |-> None, raised |-> FALSE,
           repeated |-> FALSE, before |-> <<>>]

NoChild == [status |-> "none", started |-> 0, completed |-> 0, unread |-> 0]

\* the record of Data.fix is not in use
FixIdle ==
    /\ fxPc = "off"
    /\ fxData = [origID |-> -1]
    /\ fxAttr = "qPKW"
    /\ fxValue = None
    /\ fxInterval = 0
    /\ fxResult = "none"

WriterIdle ==
    /\ dbInterval = {}
    /\ dbRows = <<>>
    /\ txInterval = {}
    /\ txRows = <<>>
    /\ nextId = 1
    /\ wrPc = "off"
    /\ wrArgs = NoWrite
    /\ rdSeen = NoRead
    /\ hDone = NoDone

FusionIdle ==
    /\ fuPc = "off"
    /\ fuTime = 0
    /\ fuLoop = <<>>
    /\ fuFcd = <<>>
    /\ fuReader = <<>>

ReplayIdle ==
    /\ roPc = "off"
    /\ roDet = "none"
    /\ roSim = "none"
    /\ rpDet = NoChild
    /\ rpSim = NoChild

NoRound == [raised |-> "none", value |-> 0]

RoundIdle ==
    /\ rnPc = "off"
    /\ rnDate = 0
    /\ rnInterval = 0
    /\ rnType = 0
    /\ rnResult = NoRound

NoConfig == [begin |-> 0, end |-> 0, repeat |-> 0, delay |-> 0, now |-> 0,
             firstlookback |-> 0, lookback |-> 0]

NoCall == [n |-> 0, isFirst |-> FALSE, beginNewDay |-> FALSE, startTime |-> 0,
           at |-> 0]

NoMain == [isFirst |-> FALSE, correctStart |-> 0, step |-> 0, ran |-> 0,
           raised |-> FALSE, asserted |-> FALSE, reset |-> FALSE]

NoPrev == [raised |-> FALSE, ran |-> 0]

SchedulerIdle ==
    /\ loPc = "off"
    /\ loCfg = NoConfig
    /\ loStart = 0
    /\ loNow = 0
    /\ loEndReached = FALSE
    /\ loContinue = FALSE
    /\ loCall = NoCall
    /\ loMain = NoMain
    /\ loPrev = NoPrev

NoStepArgs == [calls |-> 0, checkDir |-> FALSE, usesDb |-> FALSE]

StepIdle ==
    /\ stPc = "off"
    /\ stArgs = NoStepArgs
    /\ stStderr = "process"
    /\ stFile = "none"
    /\ stConn = "none"
    /\ stEnd = "none"
    /\ stStep = 1
    /\ stUnclosed = 0

CopyIdle ==
    /\ cpPc = "off"
    /\ cpExists = {}
    /\ cpDir = 0
    /\ cpFile = 0
    /\ cpLocks = {}
    /\ cpCopied = {}
    /\ cpUnlocked = {}

NoOptions == [clearState |-> FALSE, emissionOutput |-> FALSE, clean |-> FALSE,
              overlap |-> 0, forecast |-> 0]

NoSimCall == [n |-> 0, doStartEmpty |-> FALSE]

NoLocal == [doStartEmpty |-> FALSE, simBegin |-> 0, statefile |-> NoTime,
            stateExists |-> FALSE]

NoSumocfg == [n |-> 0, loadState |-> NoTime, offset |-> <<>>, begin |-> 0]

SimIdle ==
    /\ smPc = "off"
    /\ smOpt = NoOptions
    /\ smStart = 0
    /\ smArgs = NoSimCall
    /\ smLocal = NoLocal
    /\ smFiles = {}
    /\ smDumps = {}
    /\ smCfg = NoSumocfg
    /\ smDb = {}
    /\ smResult = "none"

NoExArgs == [start |-> 0, end |-> 0, intervalLength |-> 0, timeValues |-> <<>>]

NoExLocal == [offsets |-> <<>>, knownTime |-> 0, times |-> <<>>]

ExtrapolationIdle ==
    /\ exPc = "off"
    /\ exArgs = NoExArgs
    /\ exLocal = NoExLocal
    /\ exPred = <<>>

NoCheck == [data |-> <<>>, interval |-> 0, hasLKW |-> FALSE]

CheckIdle ==
    /\ ckPc = "off"
    /\ ckIn = NoCheck
    /\ ckOut = <<>>

NoDynamic == [calls |-> 0, time |-> NoTime, isFirst |-> FALSE, reset |-> FALSE,
              resetRows |-> {}]

DynamicIdle ==
    /\ DYNAMIC = {}
    /\ INVALID = {}
    /\ LAST_RESET = NoTime
    /\ dyFile = {}
    /\ dyLast = NoDynamic

NoFcdArgs == [start |-> 0, period |-> 0, intervalLength |-> 0, times |-> <<>>]

NoFcdLocal == [detReaders |-> <<>>, nextInterval |-> 0, nextPeriod |-> 0,
               rows |-> 0]

AggregateIdle ==
    /\ agPc = "off"
    /\ agArgs = NoFcdArgs
    /\ agLocal = NoFcdLocal
    /\ agWritten = <<>>

\* the functions checked on their own are not in use
ExtraIdle == CheckIdle /\ DynamicIdle /\ AggregateIdle

\* the loops are not in use
LoopsIdle ==
    /\ RoundIdle /\ SchedulerIdle /\ StepIdle /\ CopyIdle
    /\ SimIdle /\ ExtrapolationIdle /\ ExtraIdle

-----------------------------------------------------------------------------
(* correctDetector.py: one call of correctDetector, step by step *)

\* the start slot of the first call
FirstStartSlot == 4

NoArgs == [calls |-> 0, isFirst |-> FALSE, startTime |-> 0, correctStart |-> 0,
           correctEnd |-> 0, forecastEnd |-> 0]

NoRow == [id |-> 0, det |-> 0, time |-> 0, qKFZ |-> None, qLKW |-> None,
          vPKW |-> None, vLKW |-> None, detectorType |-> "NULL"]

\* hLast before anything happened
NoStep == [op |-> "none", zero |-> NoTime, data |-> <<>>, after |-> <<>>,
           newZeroTime |-> NoTime,
           endTime |-> NoTime, row |-> NoRow, date |-> NoTime, index |-> 0,
           repeated |-> FALSE]

\* the four values of a raw row as Data.__init__ keeps them
Reported(row) ==
    <<Data(row.id, NoDate, row.qKFZ, row.qLKW, row.vPKW, row.vLKW).qPKW,
      row.qLKW, row.vPKW, row.vLKW>>

\* the detector reported the same four values for each of the 5 dates before date
RepeatedBefore(reported, row, date) ==
    \A k \in 1..HANG_OFFSET :
        LET key == <<row.det, date - k * UpdateInterval>>
        IN  key \in DOMAIN reported /\ reported[key] = Reported(row)

WindowInit ==
    /\ wPc = "idle"
    /\ wZero = NoTime
    /\ wData = <<>>
    /\ wOrigData = {}
    /\ wArgs = NoArgs
    /\ wIgnore = <<>>
    /\ wRows = 0
    /\ wHasLkw \in BOOLEAN
    /\ wCheckDoubling \in BOOLEAN
    /\ wCorrected = <<>>
    /\ errorOnLastRun = FALSE
    /\ hLast = NoStep
    /\ hReported = <<>>

\* the window is not in use
WindowIdle ==
    /\ wPc = "off"
    /\ wZero = NoTime
    /\ wData = <<>>
    /\ wOrigData = {}
    /\ wArgs = NoArgs
    /\ wIgnore = <<>>
    /\ wRows = 0
    /\ wHasLkw = TRUE
    /\ wCheckDoubling = FALSE
    /\ wCorrected = <<>>
    /\ errorOnLastRun = FALSE
    /\ hLast = NoStep
    /\ hReported = <<>>

\* correctDetector.main sets the times and clears errorOnLastRun; correctDetector
\* shifts the times, resets and advances the window and, on a first run, loads
\* the previous corrections.  An exception ends the step (pythonStep) with
\* errorOnLastRun set.
Begin(first, startSlot, nCorrect, nForecast, firstOfTie) ==
    LET isFirst == first \/ errorOnLastRun
        startTime == startSlot * UpdateInterval
        correctStart == startTime + UpdateInterval
        correctEnd == correctStart + nCorrect * UpdateInterval
        forecastEnd == correctEnd + nForecast * UpdateInterval
        noData == ~isFirst /\ wData = <<>>
        doReset == isFirst \/ DOMAIN wData = {}
        zero == IF doReset THEN NoTime ELSE wZero
        data == IF doReset THEN [det \in Dets |-> <<>>] ELSE wData
        newZeroTime == roundDown(correctStart - 2 * MAX_GAP_TIME, UpdateInterval)
        prepared == prepare_dataLists(zero, data, newZeroTime, forecastEnd)
        loadRaises == isFirst /\ PrevRaises(wCorrected, newZeroTime, correctStart)
        loaded == IF isFirst
                  THEN load_previous_corrections(wCorrected, prepared, newZeroTime,
                                                 newZeroTime, correctStart, firstOfTie)
                  ELSE prepared
    IN  /\ wPc = "idle"
        /\ startTime > wArgs.startTime
        /\ zero = NoTime \/ zero <= newZeroTime
        /\ wArgs' = [calls |-> wArgs.calls + 1, isFirst |-> isFirst,
                     startTime |-> startTime,
                     correctStart |-> correctStart, correctEnd |-> correctEnd,
                     forecastEnd |-> forecastEnd]
        /\ IF noData
           THEN /\ wPc' = "idle"
                /\ errorOnLastRun' = TRUE
                /\ hLast' = [NoStep EXCEPT !.op = "raise"]
                /\ UNCHANGED <<wZero, wData, wOrigData, wIgnore, wRows>>
           ELSE /\ wPc' = IF loadRaises THEN "idle" ELSE "ingest"
                /\ errorOnLastRun' = loadRaises
                /\ wZero' = newZeroTime
                /\ wData' = loaded
                /\ wOrigData' = IF doReset THEN {} ELSE wOrigData
                /\ wIgnore' = [det \in Dets |-> {}]
                /\ wRows' = 0
                /\ hLast' = [NoStep EXCEPT !.op = "advance", !.zero = zero,
                                           !.data = data, !.after = prepared,
                                           !.newZeroTime = newZeroTime,
                                           !.endTime = forecastEnd]
        /\ UNCHANGED <<wHasLkw, wCheckDoubling, wCorrected, hReported, fxVars, dbVars, fuVars, rpVars, scVars>>

\* one pass of the loop of identify_errors, for a raw row of the interval
\* [correctStart, correctEnd)
IngestRow(row) ==
    LET entry == [row EXCEPT !.id = 0]
        doubled == wCheckDoubling /\ entry \in wOrigData
        date == roundHalfUp(row.time, UpdateInterval)
        fd == fixDate(wData[row.det], date, wZero, wIgnore[row.det])
        skipped == fd.index >= Len(fd.data) \/ date \in fd.ignore
        highway == row.detectorType = "highway"
        qKFZ == IF highway /\ row.qKFZ = R(255) THEN None ELSE row.qKFZ
        qLKW == IF highway /\ row.qLKW = R(255) THEN None ELSE row.qLKW
        checked == check(Data(row.id, date, qKFZ, qLKW, row.vPKW, row.vLKW),
                         UpdateInterval, wHasLkw)
        stored == Put(fd.data, fd.index, <<checked>>)
        repeated == RepeatedBefore(hReported, row, date)
        final == Put(stored, fd.index,
                     <<set_hanging(checked, is_hanging(stored, fd.index))>>)
    IN  /\ wPc = "ingest"
        /\ row.time >= wArgs.correctStart
        /\ row.time < wArgs.correctEnd
        /\ wRows' = wRows + 1
        /\ IF doubled
           THEN /\ hLast' = [NoStep EXCEPT !.op = "doubled", !.row = row]
                /\ UNCHANGED <<wData, wOrigData, wIgnore, hReported>>
           ELSE /\ wOrigData' = IF wCheckDoubling THEN wOrigData \cup {entry}
                                ELSE wOrigData
                /\ wIgnore' = [wIgnore EXCEPT ![row.det] = fd.ignore]
                /\ wData' = [wData EXCEPT ![row.det] =
                                IF skipped THEN fd.data ELSE final]
                /\ hReported' = [k \in DOMAIN hReported \cup {<<row.det, date>>} |->
                                    IF k = <<row.det, date>> THEN Reported(row)
                                    ELSE hReported[k]]
                /\ hLast' = [NoStep EXCEPT
                                !.op = IF skipped THEN "skipped" ELSE "stored",
                                !.zero = wZero, !.data = wData, !.row = row,
                                !.date = date, !.index = fd.index,
                                !.repeated = repeated]
        /\ UNCHANGED <<wPc, wZero, wArgs, wHasLkw, wCheckDoubling, wCorrected,
                       errorOnLastRun, fxVars, dbVars, fuVars, rpVars, scVars>>

\* the step of a phase of correctDetector: it ends in the next phase, or idle
\* with errorOnLastRun set when the phase raised
PhaseEnd(raised, nextPc) ==
    /\ wPc' = IF raised THEN "idle" ELSE nextPc
    /\ errorOnLastRun' = raised

\* fixGaps(correctStart, correctEnd, forecast=False)
Interpolate ==
    LET fixed == fixGaps(wData, wZero, wArgs.correctStart, wArgs.correctEnd, FALSE)
    IN  /\ wPc = "ingest"
        /\ wData' = fixed.data
        /\ PhaseEnd(fixed.raised, "forecast")
        /\ hLast' = [NoStep EXCEPT
                        !.op = "interpolated", !.zero = wZero,
                        !.data = [det \in DOMAIN wData |->
                                    UnfixRange(wData[det],
                                               dateToIndex(wArgs.correctStart, wZero),
                                               dateToIndex(wArgs.correctEnd, wZero),
                                               NO_ORIG_DATA)]]
        /\ UNCHANGED <<wZero, wOrigData, wArgs, wIgnore, wRows, wHasLkw,
                       wCheckDoubling, wCorrected, hReported, fxVars, dbVars, fuVars, rpVars, scVars>>

\* fixGaps(correctEnd, forecastEnd, forecast=True)
Forecast ==
    LET fixed == fixGaps(wData, wZero, wArgs.correctEnd, wArgs.forecastEnd, TRUE)
    IN  /\ wPc = "forecast"
        /\ wData' = fixed.data
        /\ PhaseEnd(fixed.raised, "write")
        /\ hLast' = [NoStep EXCEPT !.op = "forecast", !.zero = wZero,
                                   !.data = wData]
        /\ UNCHANGED <<wZero, wOrigData, wArgs, wIgnore, wRows, wHasLkw,
                       wCheckDoubling, wCorrected, hReported, fxVars, dbVars, fuVars, rpVars, scVars>>

\* write_corrected(conn, correctStart, hasLkw), the end of correctDetector
Write ==
    LET written == write_corrected(wCorrected, wData, wZero, wArgs.correctStart,
                                   wHasLkw)
    IN  /\ wPc = "write"
        /\ wData' = written.data
        /\ wCorrected' = written.table
        /\ PhaseEnd(written.raised, "idle")
        /\ hLast' = [NoStep EXCEPT !.op = "written", !.zero = wZero,
                                   !.data = wData]
        /\ UNCHANGED <<wZero, wOrigData, wArgs, wIgnore, wRows, wHasLkw,
                       wCheckDoubling, hReported, fxVars, dbVars, fuVars, rpVars, scVars>>

\* raw rows of the detectors for the call: a reading's four values, reported
\* at an offset within one of the first slots from correctStart on
RawRows(readings, offsets, slots) ==
    {[id |-> 1, det |-> det,
      time |-> wArgs.correctStart + slot * UpdateInterval + offset,
      qKFZ |-> R(v[1]), qLKW |-> R(v[2]), vPKW |-> R(v[3]), vLKW |-> R(v[4]),
      detectorType |-> "NULL"] :
        det \in Dets, slot \in 0..(slots - 1), offset \in offsets, v \in readings}

\* the calls of correctDetector.main, each for a later start time
Calls(maxCalls, jumps, corrects, forecasts) ==
    \E first \in BOOLEAN,
       startSlot \in IF wArgs.calls = 0 THEN {FirstStartSlot}
                     ELSE {wArgs.startTime \div UpdateInterval + jump :
                             jump \in jumps},
       nCorrect \in corrects, nForecast \in forecasts,
       firstOfTie \in SUBSET Dets :
        /\ wArgs.calls < maxCalls
        /\ Begin(first, startSlot, nCorrect, nForecast, firstOfTie)

\* the rows of a call, in any order
Rows(maxRows, readings, offsets, slots) ==
    \E row \in RawRows(readings, offsets, slots) :
        /\ wRows < maxRows
        /\ IngestRow(row)

\* the rows of a call, in the order of their times
RowsInOrder(maxRows, readings, offsets, slots) ==
    \E row \in RawRows(readings, offsets, slots) :
        /\ wRows < maxRows
        /\ wRows > 0 => row.time > hLast.row.time
        /\ IngestRow(row)

-----------------------------------------------------------------------------
(* The window over some calls: advance, collisions *)

MaxCalls == 2
MaxRows == 2
MaxCorrect == 2
MaxForecast == 1

\* the slots the start time advances by from call to call
StartJumps == {1, 6}

WindowReadings == {<<10, 2, 50, 40>>}
WindowOffsets == {0, 600}

WindowNext ==
    \/ Calls(MaxCalls, StartJumps, 1..MaxCorrect, 0..MaxForecast)
    \/ Rows(MaxRows, WindowReadings, WindowOffsets, MaxCorrect)
    \/ Interpolate
    \/ Forecast
    \/ Write

WindowStart == WindowInit /\ FixIdle /\ WriterIdle /\ FusionIdle /\ ReplayIdle /\ LoopsIdle

WindowSpec == WindowStart /\ [][WindowNext]_vars

\* C4: after every advance with newZeroTime >= zeroIndexTime, every detector
\* array has the length idx(endTime) under the new zeroIndexTime, for any size
\* of the forward jump.
AdvanceLengthIsEndIndex ==
    hLast.op = "advance" =>
        \A det \in DOMAIN hLast.after :
            Len(hLast.after[det]) = dateToIndex(hLast.endTime, hLast.newZeroTime)

\* C5: advance preserves the timeline: a record stored for a time t with
\* newZeroTime <= t < endTime is afterwards stored at the index of t under the
\* new zeroIndexTime, and every slot for a time the window did not cover before
\* is null.
AdvancePreservesTimeline ==
    hLast.op = "advance" =>
        \A det \in DOMAIN hLast.after :
            LET old == hLast.data[det]
                new == hLast.after[det]
            IN  /\ \A i \in 0..(Len(old) - 1) :
                     LET t == SlotTime(hLast.zero, i)
                     IN  (Occupied(old, i) /\ hLast.newZeroTime <= t
                            /\ t < hLast.endTime)
                         => /\ dateToIndex(t, hLast.newZeroTime) < Len(new)
                            /\ At(new, dateToIndex(t, hLast.newZeroTime)) = At(old, i)
                /\ \A j \in 0..(Len(new) - 1) :
                     (hLast.zero = NoTime
                        \/ SlotTime(hLast.newZeroTime, j) >= SlotTime(hLast.zero, Len(old)))
                     => ~Occupied(new, j)

\* C5 happens: an advance of a window that is kept in part, with a record in
\* the part kept
AdvanceKeepsARecord ==
    /\ hLast.op = "advance"
    /\ hLast.zero # NoTime
    /\ hLast.zero < hLast.newZeroTime
    /\ \E det \in DOMAIN hLast.data : \E i \in 0..(Len(hLast.data[det]) - 1) :
         /\ Occupied(hLast.data[det], i)
         /\ Rec(hLast.data[det], i).origDate # NoDate
         /\ SlotTime(hLast.zero, i) >= hLast.newZeroTime
         /\ SlotTime(hLast.zero, i) < hLast.endTime

\* C6: every record of the window that has an origDate sits in the slot of
\* that date, also after fixDate resolved collisions.
RecordInOwnSlot ==
    \A det \in DOMAIN wData : \A i \in 0..(Len(wData[det]) - 1) :
        (Occupied(wData[det], i) /\ Rec(wData[det], i).origDate # NoDate)
            => Rec(wData[det], i).origDate = SlotTime(wZero, i)

\* C6, as the code has it: a record that has an origDate sits no later than
\* one slot after the slot of that date.
RecordAtMostOneSlotLate ==
    \A det \in DOMAIN wData : \A i \in 0..(Len(wData[det]) - 1) :
        (Occupied(wData[det], i) /\ Rec(wData[det], i).origDate # NoDate)
            => SlotTime(wZero, i) <= Rec(wData[det], i).origDate + UpdateInterval

\* C6 happens: a row was stored one slot after the slot of its date
RecordStoredOneSlotLate ==
    /\ hLast.op = "stored"
    /\ Occupied(wData[hLast.row.det], hLast.index)
    /\ Rec(wData[hLast.row.det], hLast.index).origDate = hLast.date
    /\ SlotTime(wZero, hLast.index) = hLast.date + UpdateInterval

-----------------------------------------------------------------------------
(* One call with gaps to interpolate *)

GapCalls == 1
GapRows == 3
GapCorrect == 4

GapReadings == {<<10, 2, 50, 40>>, <<0, 0, 0, 0>>}

GapNext ==
    \/ Calls(GapCalls, StartJumps, {GapCorrect}, {0})
    \/ Rows(GapRows, GapReadings, {0}, GapCorrect)
    \/ Interpolate
    \/ Forecast
    \/ Write

GapSpec == WindowStart /\ [][GapNext]_vars

\* the gaps of attr that find_gaps finds in [start, end), as <<gapStart, gapEnd>>
find_gaps(l, attr, start, end) ==
    {<<gapStart, GapEnd(l, attr, gapStart, end)>> :
        gapStart \in {i \in start..(end - 1) :
                        /\ IsNone(Rec(l, i)[attr])
                        /\ i = start \/ ~IsNone(Rec(l, i - 1)[attr])}}

\* a gap not larger than MAX_GAP_TIME with at least ceil(size/2) valid unfixed
\* support points within size slots on each side
Qualifies(l, attr, gap) ==
    LET size == gap[2] - gap[1]
    IN  /\ size * UpdateInterval <= MAX_GAP_TIME
        /\ Cardinality(valid_indices(l, attr, gap[1] - size, gap[1]))
              >= (size + 1) \div 2
        /\ Cardinality(valid_indices(l, attr, gap[2], gap[2] + size))
              >= (size + 1) \div 2

\* the lists the interpolation pass started from (unfixed), the pass's range
PassStart == dateToIndex(wArgs.correctStart, wZero)
PassEnd == dateToIndex(wArgs.correctEnd, wZero)

\* C8: after the interpolation pass, every index of every qualifying gap of
\* every attribute holds a non-null value for that attribute.
InterpolationFillsQualifyingGaps ==
    hLast.op = "interpolated" =>
        \A det \in DOMAIN wData : \A attr \in AttrSet :
            \A gap \in find_gaps(hLast.data[det], attr, PassStart, PassEnd) :
                Qualifies(hLast.data[det], attr, gap)
                    => \A x \in gap[1]..(gap[2] - 1) :
                          ~IsNone(Rec(wData[det], x)[attr])

\* C8, as the code has it: after a completed interpolation pass, an index of a
\* qualifying gap holds the value fitted to the gap's support when Data.fix
\* accepts that value, and stays null when Data.fix rejects it.
InterpolationFillsAcceptedValues ==
    (hLast.op = "interpolated" /\ wPc = "forecast") =>
        \A det \in DOMAIN wData : \A attr \in AttrSet :
            \A gap \in find_gaps(hLast.data[det], attr, PassStart, PassEnd) :
                Qualifies(hLast.data[det], attr, gap)
                    => \A x \in gap[1]..(gap[2] - 1) :
                          LET size == gap[2] - gap[1]
                              X == valid_indices(hLast.data[det], attr,
                                                 gap[1] - size, gap[1])
                                   \cup valid_indices(hLast.data[det], attr,
                                                      gap[2], gap[2] + size)
                              value == FitValue(hLast.data[det], attr, X, x)
                              rec == Rec(wData[det], x)
                          IN  IF FixOutcome([rec EXCEPT ![attr] = None], attr,
                                            value, UpdateInterval) = "true"
                              THEN rec[attr] = value /\ attr \in rec.fixed
                              ELSE IsNone(rec[attr])

\* C8 happens: a qualifying gap of two slots was filled
TwoSlotGapFilled ==
    /\ hLast.op = "interpolated"
    /\ wPc = "forecast"
    /\ \E det \in DOMAIN wData : \E attr \in AttrSet :
         \E gap \in find_gaps(hLast.data[det], attr, PassStart, PassEnd) :
            /\ Qualifies(hLast.data[det], attr, gap)
            /\ gap[2] - gap[1] = 2
            /\ \A x \in gap[1]..(gap[2] - 1) : ~IsNone(Rec(wData[det], x)[attr])

-----------------------------------------------------------------------------
(* One call with a hanging detector *)

HangCalls == 1
HangRows == 7
HangCorrect == 7

HangReadings == {<<100, 5, 60, 55>>, <<90, 5, 60, 55>>}

HangNext ==
    \/ Calls(HangCalls, StartJumps, {HangCorrect}, {0})
    \/ RowsInOrder(HangRows, HangReadings, {0}, HangCorrect)
    \/ Interpolate
    \/ Forecast
    \/ Write

HangSpec == WindowStart /\ [][HangNext]_vars

\* C10: a newly stored record is flagged error 4 with its four attributes
\* nulled whenever the detector reported the same four values for each of the
\* five preceding positions: the sixth reading of a run and every later one.
HangingReadingFlagged ==
    (hLast.op = "stored" /\ hLast.repeated) =>
        LET rec == Rec(wData[hLast.row.det], hLast.index)
        IN  /\ rec.errorPKW = 4
            /\ rec.errorLKW = 4
            /\ \A attr \in AttrSet : IsNone(rec[attr])

-----------------------------------------------------------------------------
(* Data.fix on one record *)

FixIntervals == {60, 900}
FixFlows == {None, R(0), R(1), R(30), R(700)}
FixValues == {R(-30), R(-1), R(0), R(1), R(60), R(130), R(260),
              R(320), Frac(-25, 2), Frac(1, 2)}

\* the records fix is called on: the attribute to fix is a gap, and a record
\* without a flow has no speed
FixInit ==
    /\ WindowIdle
    /\ WriterIdle
    /\ FusionIdle
    /\ ReplayIdle
    /\ LoopsIdle
    /\ fxPc = "start"
    /\ fxResult = "none"
    /\ fxInterval \in FixIntervals
    /\ fxAttr \in AttrSet
    /\ fxValue \in FixValues
    /\ \E q \in FixFlows :
         fxData = [Data(NO_ORIG_DATA, NoDate, None, None, None, None)
                     EXCEPT ![FlowAttr(TypeOf(fxAttr))] =
                              IF is_flow_attr(fxAttr) THEN None ELSE q]

Fix ==
    /\ fxPc = "start"
    /\ fxPc' = "fixed"
    /\ fxResult' = FixOutcome(fxData, fxAttr, fxValue, fxInterval)
    /\ fxData' = FixData(fxData, fxAttr, fxValue, fxInterval)
    /\ UNCHANGED <<fxAttr, fxValue, fxInterval, wVars, dbVars, fuVars, rpVars, scVars>>

FixNext == Fix

FixSpec == FixInit /\ [][FixNext]_vars

\* the error code check() would give the record's flow and speed of a type
Reclassify(d, type, u) ==
    LET e == _getDataError(d[FlowAttr(type)], d[SpeedAttr(type)],
                           MAX_SPEED(type), LENGTH(type), u)
    IN  IF e > 0 THEN e
        ELSE _getSpeedError(d[FlowAttr(type)], d[SpeedAttr(type)], MAX_SPEED(type))

\* C7: whenever Data.fix returns true, re-classifying the record's flow and
\* speed of that vehicle type yields none of the errors 2, 5, 6, 7, 8, 9.
FixReturnsTrueOnlyForCleanRecords ==
    (fxPc = "fixed" /\ fxResult = "true")
        => Reclassify(fxData, TypeOf(fxAttr), fxInterval) \notin {2, 5, 6, 7, 8, 9}

-----------------------------------------------------------------------------
(* aggregateData.py: the rows insertAggregated computes from a DetectorReader *)

\* a detector group's data: DetectorGroupData after reset
NoGroupData == [totalFlow |-> None, avgSpeed |-> None, quality |-> None,
                coverage |-> None, entryCount |-> 0, detectors |-> 1]

\* int(x): towards zero
Trunc(x) == IF x[1] < 0 THEN -((-x[1]) \div x[2]) ELSE x[1] \div x[2]

OrZero(a) == IF IsNone(a) THEN R(0) ELSE a

NoSums == [flowSum |-> None, speedSum |-> None, qualitySum |-> None,
           coverageSum |-> None, entryCount |-> 0, groupCount |-> 0]

\* the loop "for group in groups" over the groups from k on
RECURSIVE SumGroups(_, _, _)
SumGroups(sums, groups, k) ==
    IF k > Len(groups) THEN [sums EXCEPT !.groupCount = @ + Len(groups)]
    ELSE LET g == groups[k]
             weight == IF IsNone(g.totalFlow) \/ IsZero(g.totalFlow) THEN R(1)
                       ELSE g.totalFlow
         IN  SumGroups(
                [flowSum |-> IF IsNone(g.totalFlow) THEN sums.flowSum
                             ELSE RAdd(OrZero(sums.flowSum), g.totalFlow),
                 speedSum |-> IF IsNone(g.avgSpeed) THEN sums.speedSum
                              ELSE RAdd(OrZero(sums.speedSum),
                                        RMul(g.avgSpeed, weight)),
                 qualitySum |-> IF IsNone(g.quality) THEN sums.qualitySum
                                ELSE RAdd(OrZero(sums.qualitySum),
                                          RMul(g.quality, R(g.entryCount))),
                 coverageSum |-> IF IsNone(g.coverage) THEN sums.coverageSum
                                 ELSE RAdd(OrZero(sums.coverageSum),
                                           RDiv(g.coverage, R(g.detectors))),
                 entryCount |-> sums.entryCount + g.entryCount,
                 groupCount |-> sums.groupCount],
                groups, k + 1)

\* flowScale and expectedEntryCount as aggregateDetector passes them for an
\* aggregation interval of 1800 s with an update interval of 900 s
FlowScale == 2
ExpectedEntryCount == 2

\* flowScale of a call: aggregateDetector passes it, aggregateFCD and fusion
\* leave the default
FlowScaleOf(typeName) == IF typeName = "loop" THEN FlowScale ELSE 1

\* the divisor of the coverage
CoverageDivisor(typeName, sums) ==
    IF typeName = "fcd" THEN sums.entryCount
    ELSE IF typeName = "loop" THEN ExpectedEntryCount ELSE 0

\* whether computing the row of an edge divides by zero
RowRaises(typeName, sums) ==
    /\ ~IsNone(sums.coverageSum)
    /\ \/ CoverageDivisor(typeName, sums) = 0
       \/ ~IsNone(sums.flowSum) /\ IsZero(sums.coverageSum)

\* the row (trafficIndex, edge, flow, speed, quality) of an edge with entries
EdgeRow(typeName, trafficIndex, edge, sums) ==
    LET coverage == IF IsNone(sums.coverageSum) THEN None
                    ELSE RDiv(sums.coverageSum, R(CoverageDivisor(typeName, sums)))
        scaled == IF IsNone(coverage) THEN sums.flowSum
                  ELSE RDiv(sums.flowSum, coverage)
        flow == IF IsNone(sums.flowSum) THEN None
                ELSE R(Trunc(RDiv(RMul(scaled, R(FlowScaleOf(typeName))),
                                     R(sums.groupCount))))
        speed == IF IsNone(sums.speedSum) THEN None
                 ELSE RDiv(sums.speedSum,
                           IF IsNone(sums.flowSum) \/ IsZero(sums.flowSum)
                           THEN R(sums.entryCount) ELSE sums.flowSum)
        coverageDiscount == IF IsNone(coverage) THEN R(1)
                            ELSE IF RGt(coverage, R(1)) THEN RDiv(R(1), coverage)
                            ELSE coverage
        quality == IF IsNone(sums.qualitySum) THEN None
                   ELSE RDiv(RMul(sums.qualitySum, coverageDiscount),
                             R(sums.entryCount))
    IN  [table |-> typeName, id |-> trafficIndex, edge |-> edge, flow |-> flow,
         speed |-> speed, quality |-> quality]

\* insertRows, totalQuality and whether an exception ended the computation,
\* for the edges of the reader from k on
RECURSIVE InsertRowsFrom(_, _, _, _, _)
InsertRowsFrom(acc, typeName, trafficIndex, reader, k) ==
    IF k > Len(reader) \/ acc.raised THEN acc
    ELSE LET sums == SumGroups(NoSums, reader[k].groups, 1)
         IN  IF sums.entryCount = 0
             THEN InsertRowsFrom(acc, typeName, trafficIndex, reader, k + 1)
             ELSE IF RowRaises(typeName, sums) THEN [acc EXCEPT !.raised = TRUE]
             ELSE LET row == EdgeRow(typeName, trafficIndex, reader[k].edge, sums)
                  IN  InsertRowsFrom(
                         [rows |-> Append(acc.rows, row),
                          totalQuality |-> RAdd(acc.totalQuality, OrZero(row.quality)),
                          raised |-> FALSE],
                         typeName, trafficIndex, reader, k + 1)

InsertRows(typeName, trafficIndex, reader) ==
    LET all == InsertRowsFrom([rows |-> <<>>, totalQuality |-> R(0),
                               raised |-> FALSE],
                              typeName, trafficIndex, reader, 1)
    IN  IF all.raised \/ all.rows = <<>> THEN all
        ELSE [all EXCEPT !.totalQuality = RDiv(@, R(Len(all.rows)))]

\* group.reset() for every group of the reader
ResetReader(reader) ==
    [k \in 1..Len(reader) |->
        [reader[k] EXCEPT !.groups =
            [j \in 1..Len(reader[k].groups) |->
                [NoGroupData EXCEPT !.detectors = reader[k].groups[j].detectors]]]]

-----------------------------------------------------------------------------
(* default_schema.py, aggregateData.py: insertAggregated statement by statement *)

\* the interval rows of a table for a time
IntervalRows(intervals, table, time) ==
    {r \in intervals : r.table = table /\ r.time = time}

\* what a query for (type, intervalEnd) returns: the interval rows with their
\* quality, and the data rows of these intervals
View(intervals, rows, table, time) ==
    LET found == IntervalRows(intervals, table, time)
    IN  [interval |-> found,
         rows |-> SelectSeq(rows, LAMBDA r : r.table = table
                                              /\ r.id \in {i.id : i \in found})]

\* a DELETE that removes nothing
DeleteRows_none(rows, table, id) == rows

\* DELETE FROM dataTable WHERE traffic_id = id
DeleteRows(rows, table, id) ==
    SelectSeq(rows, LAMBDA r : ~(r.table = table /\ r.id = id))

\* the state of (type, intervalEnd) after the running insertAggregated
PostView(args) ==
    LET computed == InsertRows(args.table, args.index, args.reader)
        nothing == computed.raised \/ computed.rows = <<>>
        old == args.pre.interval
        interval == IF old = {}
                    THEN {[table |-> args.table, id |-> args.index,
                           time |-> args.time, quality |-> None]}
                    ELSE old
    IN  IF nothing THEN [interval |-> interval, rows |-> args.pre.rows]
        ELSE [interval |-> {[r EXCEPT !.quality = computed.totalQuality] :
                              r \in interval},
              rows |-> computed.rows]

\* insertAggregated is called (conn is the writer's connection)
WriterCall(typeName, intervalEnd, reader) ==
    LET old == IntervalRows(txInterval, typeName, intervalEnd)
    IN  /\ wrPc = "idle"
        /\ wrPc' = "interval"
        /\ wrArgs' = [table |-> typeName, time |-> intervalEnd, reader |-> reader,
                      index |-> IF old = {} THEN nextId
                                ELSE (CHOOSE r \in old : TRUE).id,
                      newId |-> nextId,
                      pre |-> View(dbInterval, dbRows, typeName, intervalEnd)]
        /\ UNCHANGED <<dbInterval, dbRows, txInterval, txRows, nextId, rdSeen,
                       hDone, fxVars, wVars, rpVars, scVars>>

\* AggregateData.getIntervalID: the id of the interval row, which is inserted
\* and committed when there is none
GetIntervalID ==
    LET old == IntervalRows(txInterval, wrArgs.table, wrArgs.time)
        new == [table |-> wrArgs.table, id |-> nextId, time |-> wrArgs.time,
                quality |-> None]
    IN  /\ wrPc = "interval"
        /\ wrPc' = "quality"
        /\ IF old # {}
           THEN UNCHANGED <<dbInterval, dbRows, txInterval, nextId>>
           ELSE /\ txInterval' = txInterval \cup {new}
                /\ dbInterval' = txInterval'
                /\ dbRows' = txRows
                /\ nextId' = nextId + 1
        /\ UNCHANGED <<txRows, wrArgs, rdSeen, hDone, fxVars, wVars, fuVars, rpVars, scVars>>

\* the last completed call, for the history
Done(computed) ==
    [calls |-> hDone.calls + 1, table |-> wrArgs.table, time |-> wrArgs.time,
     reader |-> wrArgs.reader, index |-> wrArgs.index, rows |-> computed.rows,
     totalQuality |-> computed.totalQuality, raised |-> computed.raised,
     repeated |-> /\ hDone.calls > 0
                  /\ hDone.table = wrArgs.table
                  /\ hDone.time = wrArgs.time
                  /\ hDone.reader = wrArgs.reader,
     before |-> wrArgs.pre]

\* the rows are computed; with rows, the interval's quality is updated and
\* committed; without, or on an exception, insertAggregated ends
UpdateQuality ==
    LET computed == InsertRows(wrArgs.table, wrArgs.index, wrArgs.reader)
        nothing == computed.raised \/ computed.rows = <<>>
    IN  /\ wrPc = "quality"
        /\ IF nothing
           THEN /\ wrPc' = "idle"
                /\ hDone' = Done(computed)
                /\ UNCHANGED <<dbInterval, dbRows, txInterval>>
           ELSE /\ wrPc' = "delete"
                /\ txInterval' =
                      {IF r.table = wrArgs.table /\ r.id = wrArgs.index
                       THEN [r EXCEPT !.quality = computed.totalQuality] ELSE r :
                         r \in txInterval}
                /\ dbInterval' = txInterval'
                /\ dbRows' = txRows
                /\ UNCHANGED hDone
        /\ UNCHANGED <<txRows, nextId, wrArgs, rdSeen, fxVars, wVars, fuVars, rpVars, scVars>>

\* AggregateData.insertData: the DELETE, not committed
DeleteData ==
    /\ wrPc = "delete"
    /\ wrPc' = "insert"
    /\ txRows' = DeleteRows(txRows, wrArgs.table, wrArgs.index)
    /\ UNCHANGED <<dbInterval, dbRows, txInterval, nextId, wrArgs, rdSeen, hDone,
                   fxVars, wVars, fuVars, rpVars, scVars>>

\* AggregateData.insertData: the INSERT of the rows, committed
InsertData ==
    LET computed == InsertRows(wrArgs.table, wrArgs.index, wrArgs.reader)
    IN  /\ wrPc = "insert"
        /\ wrPc' = "idle"
        /\ txRows' = txRows \o computed.rows
        /\ dbRows' = txRows'
        /\ dbInterval' = txInterval
        /\ hDone' = Done(computed)
        /\ UNCHANGED <<txInterval, nextId, wrArgs, rdSeen, fxVars, wVars, fuVars,
                       rpVars, scVars>>

\* a reader on another connection queries (type, intervalEnd): it sees what
\* is committed
Read(typeName, intervalEnd) ==
    /\ rdSeen' = [during |-> /\ wrPc \notin {"idle", "off"}
                             /\ wrArgs.table = typeName
                             /\ wrArgs.time = intervalEnd,
                  view |-> View(dbInterval, dbRows, typeName, intervalEnd),
                  pre |-> wrArgs.pre,
                  post |-> IF wrPc \in {"idle", "off"} THEN <<>>
                           ELSE PostView(wrArgs)]
    /\ UNCHANGED <<dbInterval, dbRows, txInterval, txRows, nextId, wrPc, wrArgs,
                   hDone, fxVars, wVars, fuVars, rpVars, scVars>>

-----------------------------------------------------------------------------
(* The writer of an interval and a concurrent reader *)

MaxWrites == 2

WriteTime == 1800

Group(flow, speed, quality, coverage, entryCount) ==
    [totalFlow |-> flow, avgSpeed |-> speed, quality |-> quality,
     coverage |-> coverage, entryCount |-> entryCount, detectors |-> 1]

\* the readers handed to insertAggregated: one edge; two edges, one of them
\* with a speed only; no entries; a coverage of zero
Readers ==
    {<<[edge |-> 1, groups |-> <<Group(R(100), R(50), R(80), R(2), 2)>>]>>,
     <<[edge |-> 1, groups |-> <<Group(R(40), R(30), R(60), R(1), 1)>>],
       [edge |-> 2, groups |-> <<Group(None, R(20), R(50), None, 1)>>]>>,
     <<[edge |-> 1, groups |-> <<NoGroupData>>]>>,
     <<[edge |-> 1, groups |-> <<Group(R(10), R(50), R(80), R(0), 1)>>]>>}

\* the tables before: empty, or with an interval of loop data for WriteTime
\* that has rows
StoredBefore ==
    {[interval |-> {}, rows |-> <<>>, nextId |-> 1],
     [interval |-> {[table |-> "loop", id |-> 1, time |-> WriteTime,
                     quality |-> R(50)]},
      rows |-> <<[table |-> "loop", id |-> 1, edge |-> 1, flow |-> R(7),
                  speed |-> R(9), quality |-> R(50)],
                 [table |-> "loop", id |-> 1, edge |-> 3, flow |-> R(5),
                  speed |-> None, quality |-> R(50)]>>,
      nextId |-> 2]}

WriterInit ==
    /\ \E db \in StoredBefore :
         /\ dbInterval = db.interval
         /\ dbRows = db.rows
         /\ txInterval = db.interval
         /\ txRows = db.rows
         /\ nextId = db.nextId
    /\ wrPc = "idle"
    /\ wrArgs = NoWrite
    /\ rdSeen = NoRead
    /\ hDone = NoDone

Writes ==
    \E typeName \in {"loop", "fcd"}, reader \in Readers :
        /\ hDone.calls < MaxWrites
        /\ WriterCall(typeName, WriteTime, reader)
        /\ UNCHANGED fuVars

Reads == \E typeName \in {"loop", "fcd"} : Read(typeName, WriteTime)

WriterNext ==
    \/ Writes
    \/ GetIntervalID
    \/ UpdateQuality
    \/ DeleteData
    \/ InsertData
    \/ Reads

WriterStart == WriterInit /\ FixIdle /\ WindowIdle /\ FusionIdle /\ ReplayIdle /\ LoopsIdle

WriterSpec == WriterStart /\ [][WriterNext]_vars

\* C1: a completed insertAggregated with rows leaves exactly one interval row
\* for (type, intervalEnd), with the quality of that write, and exactly the
\* data rows of that write, whatever was stored before; a second call with
\* the same data leaves what the first call left.
WriteIsIdempotent ==
    (wrPc = "idle" /\ hDone.calls > 0 /\ hDone.rows # <<>> /\ ~hDone.raised) =>
        LET v == View(dbInterval, dbRows, hDone.table, hDone.time)
        IN  /\ Cardinality(v.interval) = 1
            /\ \A r \in v.interval :
                  r.id = hDone.index /\ r.quality = hDone.totalQuality
            /\ v.rows = hDone.rows
            /\ hDone.repeated => v = hDone.before

\* C1 happens: a second call with the same data, with rows, completed
SameWriteTwice ==
    /\ wrPc = "idle"
    /\ hDone.repeated
    /\ hDone.rows # <<>>
    /\ ~hDone.raised

\* C2: what a reader sees of (type, intervalEnd) during a write to it is the
\* state before the write or the state after it.
ReaderSeesPreOrPost ==
    rdSeen.during => rdSeen.view \in {rdSeen.pre, rdSeen.post}

-----------------------------------------------------------------------------
(* fusion.py: FusionValue, _fusion and fusion; detector.py: the reader's groups *)

QUALITY_FACTOR_one(source) == R(1)

QUALITY_FACTOR(source) == IF source = "loop" THEN R(1) ELSE Frac(1, 2)

\* FusionValue.__init__
FusionValue == [initialized |-> FALSE, weightedSum |-> R(0),
                inverseQuality |-> R(1), weight |-> R(0)]

\* FusionValue.add
FusionAdd(f, value, qualityPercent, weight) ==
    IF ~IsNone(value) /\ RGt(f.inverseQuality, R(0))
    THEN [initialized |-> TRUE,
          weightedSum |-> RAdd(f.weightedSum, RMul(weight, value)),
          weight |-> RAdd(f.weight, weight),
          inverseQuality |-> RMul(f.inverseQuality,
                                  RSub(R(1), RDiv(qualityPercent, R(100))))]
    ELSE f

\* FusionValue.getValueAndQualityPercent
getValueAndQualityPercent(f) ==
    IF f.initialized /\ RGt(f.weight, R(0))
    THEN [value |-> RDiv(f.weightedSum, f.weight),
          quality |-> RMul(R(100), RSub(R(1), f.inverseQuality))]
    ELSE [value |-> None, quality |-> None]

\* DetectorGroupData._updateSpeed: the new avgSpeed
_updateSpeed(avgSpeed, speed, oldWeight, newWeight) ==
    IF IsNone(speed) THEN avgSpeed
    ELSE RDiv(RAdd(RMul(OrZero(avgSpeed), oldWeight), RMul(speed, newWeight)),
              RAdd(oldWeight, newWeight))

\* DetectorGroupData.addDetFlow of a group with the quality measure AVERAGE
addDetFlow(g, flow, speed, quality, coverage) ==
    LET totalFlow == IF ~IsNone(flow) /\ IsNone(g.totalFlow) THEN R(0)
                     ELSE g.totalFlow
        adds == ~IsNone(flow) /\ ~IsZero(flow)
        ownQuality == IF IsNone(g.quality) /\ ~IsNone(quality) THEN R(0)
                      ELSE g.quality
        newQuality == IF ~IsNone(g.quality) /\ IsNone(quality) THEN R(0)
                      ELSE quality
        ownCoverage == IF IsNone(g.coverage) /\ ~IsNone(coverage) THEN R(0)
                       ELSE g.coverage
    IN  [totalFlow |-> IF adds THEN RAdd(totalFlow, flow) ELSE totalFlow,
         avgSpeed |-> IF adds
                      THEN _updateSpeed(g.avgSpeed, speed, totalFlow, flow)
                      ELSE IF IsNone(flow)
                      THEN _updateSpeed(g.avgSpeed, speed, R(g.entryCount), R(1))
                      ELSE g.avgSpeed,
         quality |-> IF ~IsNone(ownQuality) /\ ~IsNone(newQuality)
                     THEN RDiv(RAdd(RMul(ownQuality, R(g.entryCount)), newQuality),
                               R(g.entryCount + 1))
                     ELSE ownQuality,
         coverage |-> IF ~IsNone(coverage) /\ ~IsZero(coverage)
                      THEN RAdd(ownCoverage, coverage) ELSE ownCoverage,
         entryCount |-> g.entryCount + 1,
         detectors |-> g.detectors]

\* DetectorReader.hasEdge
hasEdge(reader, edge) == \E k \in 1..Len(reader) : reader[k].edge = edge

\* DetectorReader.addGroup(0, edge) and addDetector(edge, 0, edge) for an
\* edge the reader does not have
addGroup(reader, edge) ==
    Append(reader, [edge |-> edge,
                    groups |-> <<[NoGroupData EXCEPT !.detectors = 1]>>])

\* DetectorReader.addFlow(edge, flow, speed, quality): the detector named
\* after the edge belongs to the edge's first group
addFlow(reader, edge, flow, speed, quality) ==
    [k \in 1..Len(reader) |->
        IF reader[k].edge = edge
        THEN [reader[k] EXCEPT !.groups[1] = addDetFlow(@, flow, speed, quality, None)]
        ELSE reader[k]]

\* _fusion: the end of the body of "for edge, subrows in groupby(...)"
AddFused(reader, edge, qFusion, vFusion) ==
    LET q == getValueAndQualityPercent(qFusion)
        v == getValueAndQualityPercent(vFusion)
        flow == IF ~IsNone(q.value) /\ IsZero(q.value)
                   /\ RGt(OrZero(v.value), R(0))
                THEN R(1) ELSE q.value
        speed == IF ~IsNone(v.value) /\ IsZero(v.value) /\ RGt(OrZero(flow), R(0))
                 THEN None ELSE v.value
        quality == IF RGt(OrZero(q.quality), OrZero(v.quality))
                   THEN OrZero(q.quality) ELSE OrZero(v.quality)
    IN  IF RGt(quality, R(0))
        THEN addFlow(IF hasEdge(reader, edge) THEN reader
                     ELSE addGroup(reader, edge),
                     edge, flow, speed, quality)
        ELSE reader

\* _fusion: the loop over the rows from k on; groupby starts a new group
\* where the edge of the next row differs
RECURSIVE FusionFrom(_, _, _, _, _)
FusionFrom(reader, rows, k, qFusion, vFusion) ==
    IF k > Len(rows) THEN reader
    ELSE LET r == rows[k]
             adaptedQuality == RMul(r.quality, QUALITY_FACTOR(r.source))
             qNext == IF r.source # "fcd"
                      THEN FusionAdd(qFusion, r.q, adaptedQuality, adaptedQuality)
                      ELSE qFusion
             vNext == FusionAdd(vFusion, r.v, adaptedQuality, adaptedQuality)
         IN  IF k = Len(rows) \/ rows[k + 1].edge # r.edge
             THEN FusionFrom(AddFused(reader, r.edge, qNext, vNext), rows, k + 1,
                             FusionValue, FusionValue)
             ELSE FusionFrom(reader, rows, k + 1, qNext, vNext)

\* a row before another under ORDER BY edge_id, d.quality
RowBefore(a, b) ==
    a.edge < b.edge \/ (a.edge = b.edge /\ RLt(a.quality, b.quality))

\* the rows in the order of the query
RECURSIVE Ordered(_)
Ordered(rows) ==
    IF rows = <<>> THEN <<>>
    ELSE LET rest == Ordered(Tail(rows))
             first == Head(rows)
             ahead == SelectSeq(rest, LAMBDA r : RowBefore(r, first))
             behind == SelectSeq(rest, LAMBDA r : ~RowBefore(r, first))
         IN  ahead \o <<first>> \o behind

\* _fusion: the query for a source on the connection of fusion()
FusionRows(source, intervalEnd, intervalLength) ==
    LET ids == {i.id : i \in {r \in txInterval :
                                 /\ r.table = source
                                 /\ r.time > intervalEnd - intervalLength
                                 /\ r.time <= intervalEnd}}
        found == SelectSeq(txRows, LAMBDA r : r.table = source /\ r.id \in ids)
    IN  Ordered([k \in 1..Len(found) |->
                    [edge |-> found[k].edge, source |-> source,
                     q |-> found[k].flow, v |-> found[k].speed,
                     quality |-> found[k].quality]])

-----------------------------------------------------------------------------
(* fusion(): the loop over the fusion intervals *)

FusionLength == 1800
FusionStart == 0
FusionEnd == 1800

\* _fusion(conn, detReader, fusionTime, intervalLength) for the next interval
FuseInterval ==
    LET time == fuTime + FusionLength
        loop == FusionRows("loop", time, FusionLength)
        fcd == FusionRows("fcd", time, FusionLength)
    IN  /\ fuPc = "fuse"
        /\ fuTime <= FusionEnd
        /\ fuTime' = time
        /\ fuLoop' = loop
        /\ fuFcd' = fcd
        /\ fuReader' = FusionFrom(fuReader, loop \o fcd, 1, FusionValue, FusionValue)
        /\ fuPc' = "insert"
        /\ UNCHANGED <<fxVars, wVars, dbVars, rpVars, scVars>>

\* insertAggregated(conn, "fusion", detReader, fusionTime, intervalLength)
\* is called; it resets the groups of the reader
InsertFused ==
    /\ fuPc = "insert"
    /\ WriterCall("fusion", fuTime, fuReader)
    /\ fuReader' = ResetReader(fuReader)
    /\ fuPc' = "fuse"
    /\ UNCHANGED <<fuTime, fuLoop, fuFcd>>

\* the loop of fusion() ends
FusionClose ==
    /\ fuPc = "fuse"
    /\ wrPc = "idle"
    /\ fuTime > FusionEnd
    /\ fuPc' = "done"
    /\ UNCHANGED <<fuTime, fuLoop, fuFcd, fuReader, fxVars, wVars, dbVars, rpVars, scVars>>

FusionEdges == {1, 2}

\* the loop rows (q, v, quality) an edge may have in the interval
LoopOptions == {<<R(1000), None, R(80)>>, <<R(1000), R(40), R(80)>>,
                <<R(0), None, R(80)>>, <<R(500), R(40), R(100)>>}

\* the fcd rows (count, travel_speed, quality) an edge may have
FcdOptions == {<<R(3), R(50), R(60)>>, <<R(1), R(30), R(40)>>}

\* the data rows of a table: those of the edges that have one, by edge
RECURSIVE TableRows(_, _, _, _)
TableRows(table, id, choice, edge) ==
    IF edge \notin DOMAIN choice THEN <<>>
    ELSE (IF choice[edge] = <<>> THEN <<>>
          ELSE <<[table |-> table, id |-> id, edge |-> edge,
                  flow |-> choice[edge][1], speed |-> choice[edge][2],
                  quality |-> choice[edge][3]]>>)
         \o TableRows(table, id, choice, edge + 1)

FusionInit ==
    /\ \E loop \in [FusionEdges -> LoopOptions \cup {<<>>}],
          fcd \in [FusionEdges -> FcdOptions \cup {<<>>}] :
         /\ dbInterval = {[table |-> "loop", id |-> 1,
                           time |-> FusionEnd, quality |-> R(80)],
                          [table |-> "fcd", id |-> 2,
                           time |-> FusionEnd, quality |-> R(60)]}
         /\ dbRows = TableRows("loop", 1, loop, 1)
                        \o TableRows("fcd", 2, fcd, 1)
    /\ txInterval = dbInterval
    /\ txRows = dbRows
    /\ nextId = 3
    /\ wrPc = "idle"
    /\ wrArgs = NoWrite
    /\ rdSeen = NoRead
    /\ hDone = NoDone
    /\ fuPc = "fuse"
    /\ fuTime = FusionStart
    /\ fuLoop = <<>>
    /\ fuFcd = <<>>
    /\ fuReader = <<>>

FusionNext ==
    \/ FuseInterval
    \/ InsertFused
    \/ GetIntervalID
    \/ UpdateQuality
    \/ DeleteData
    \/ InsertData
    \/ FusionClose

FusionBegin == FusionInit /\ FixIdle /\ WindowIdle /\ ReplayIdle /\ LoopsIdle

FusionSpec == FusionBegin /\ [][FusionNext]_vars

\* the loop row and the fcd row of an edge in the aggregated tables
LoopRowOf(edge) ==
    SelectSeq(dbRows, LAMBDA r : r.table = "loop" /\ r.edge = edge)

FcdRowOf(edge) ==
    SelectSeq(dbRows, LAMBDA r : r.table = "fcd" /\ r.edge = edge)

\* the fusion rows of an edge for the first fusion interval
FusedRowsOf(edge) ==
    SelectSeq(View(dbInterval, dbRows, "fusion", FusionStart + FusionLength).rows,
              LAMBDA r : r.edge = edge)

\* the first fusion interval is written
FirstFusionWritten == hDone.calls > 0 /\ wrPc = "idle"

\* an edge with a loop row that has a flow and an fcd row that has a speed
HasBoth(edge) ==
    /\ Len(LoopRowOf(edge)) = 1
    /\ Len(FcdRowOf(edge)) = 1
    /\ ~IsNone(LoopRowOf(edge)[1].flow)
    /\ ~IsNone(FcdRowOf(edge)[1].speed)

\* the rows of the edge follow each other in chain(rows["loop"], rows["fcd"])
Adjacent(edge) ==
    /\ \A e \in FusionEdges : e > edge => LoopRowOf(e) = <<>>
    /\ \A e \in FusionEdges : e < edge => FcdRowOf(e) = <<>>

\* 100 * (1 - (1 - a/100) * (1 - b/100))
Combined(a, b) ==
    RSub(R(100), RDiv(RMul(RSub(R(100), a), RSub(R(100), b)), R(100)))

RMax(a, b) == IF RGt(a, b) THEN a ELSE b

-----------------------------------------------------------------------------
(* replay_loops.py: the orchestrator, and the two loops it runs as children *)

\* the iterations a child's loop has data for
MaxIterations == 2

\* Popen: the child runs from the start
Spawned == [status |-> "running", started |-> 0, completed |-> 0, unread |-> 0]

\* stop(process): SIGSTOP, which only a running child obeys
stop(process, child) ==
    IF process = "proc" /\ child.status = "running"
    THEN [child EXCEPT !.status = "stopped"] ELSE child

\* resume(process): SIGCONT
resume(process, child) ==
    IF process = "proc" /\ child.status = "stopped"
    THEN [child EXCEPT !.status = "running"] ELSE child

\* read_until(process, "Duration:") returns: there is no process, the child
\* has exited, or a line with the keyword is in the pipe
ReadReturns(process, child) ==
    process # "proc" \/ child.status = "exited" \/ child.unread > 0

\* read_until(process, "Duration:") returns None
ReadNone(process, child) == process # "proc" \/ child.status = "exited"

\* the child after read_until
ReadChild(process, child) ==
    IF ReadNone(process, child) THEN child
    ELSE [child EXCEPT !.unread = @ - 1]

\* the process variable after "if read_until(...) is None: process = None"
ReadProcess(process, child) ==
    IF ReadNone(process, child) THEN "dropped" ELSE process

\* a child begins the work of its next iteration
BeginIteration(child) == [child EXCEPT !.started = @ + 1]

\* a child ends an iteration and prints "Duration:"
EndIteration(child) ==
    [child EXCEPT !.completed = @ + 1, !.unread = @ + 1]

PopenDet ==
    /\ roPc = "popenDet"
    /\ rpDet' = Spawned
    /\ roDet' = "proc"
    /\ roPc' = "stopDet0"
    /\ UNCHANGED <<roSim, rpSim, fxVars, wVars, dbVars, fuVars, scVars>>

StopDet ==
    /\ roPc \in {"stopDet0", "stopDet"}
    /\ rpDet' = stop(roDet, rpDet)
    /\ roPc' = IF roPc = "stopDet0" THEN "popenSim" ELSE "resumeSim"
    /\ UNCHANGED <<roDet, roSim, rpSim, fxVars, wVars, dbVars, fuVars, scVars>>

PopenSim ==
    /\ roPc = "popenSim"
    /\ rpSim' = Spawned
    /\ roSim' = "proc"
    /\ roPc' = "stopSim0"
    /\ UNCHANGED <<roDet, rpDet, fxVars, wVars, dbVars, fuVars, scVars>>

StopSim ==
    /\ roPc \in {"stopSim0", "stopSim"}
    /\ rpSim' = stop(roSim, rpSim)
    /\ roPc' = "while"
    /\ UNCHANGED <<roDet, roSim, rpDet, fxVars, wVars, dbVars, fuVars, scVars>>

\* while detProcess and simProcess
While ==
    /\ roPc = "while"
    /\ roPc' = IF roDet = "proc" /\ roSim = "proc" THEN "resumeDet" ELSE "done"
    /\ UNCHANGED <<roDet, roSim, rpDet, rpSim, fxVars, wVars, dbVars, fuVars, scVars>>

ResumeDet ==
    /\ roPc = "resumeDet"
    /\ rpDet' = resume(roDet, rpDet)
    /\ roPc' = "readDet"
    /\ UNCHANGED <<roDet, roSim, rpSim, fxVars, wVars, dbVars, fuVars, scVars>>

ReadDet ==
    /\ roPc = "readDet"
    /\ ReadReturns(roDet, rpDet)
    /\ rpDet' = ReadChild(roDet, rpDet)
    /\ roDet' = ReadProcess(roDet, rpDet)
    /\ roPc' = "stopDet"
    /\ UNCHANGED <<roSim, rpSim, fxVars, wVars, dbVars, fuVars, scVars>>

ResumeSim ==
    /\ roPc = "resumeSim"
    /\ rpSim' = resume(roSim, rpSim)
    /\ roPc' = "readSim"
    /\ UNCHANGED <<roDet, roSim, rpDet, fxVars, wVars, dbVars, fuVars, scVars>>

ReadSim ==
    /\ roPc = "readSim"
    /\ ReadReturns(roSim, rpSim)
    /\ rpSim' = ReadChild(roSim, rpSim)
    /\ roSim' = ReadProcess(roSim, rpSim)
    /\ roPc' = "stopSim"
    /\ UNCHANGED <<roDet, rpDet, fxVars, wVars, dbVars, fuVars, scVars>>

\* the detector loop, while it is not stopped
DetBegin ==
    /\ rpDet.status = "running"
    /\ rpDet.started = rpDet.completed
    /\ rpDet.started < MaxIterations
    /\ rpDet' = BeginIteration(rpDet)
    /\ UNCHANGED <<roPc, roDet, roSim, rpSim, fxVars, wVars, dbVars, fuVars, scVars>>

DetEnd ==
    /\ rpDet.status = "running"
    /\ rpDet.started > rpDet.completed
    /\ rpDet' = EndIteration(rpDet)
    /\ UNCHANGED <<roPc, roDet, roSim, rpSim, fxVars, wVars, dbVars, fuVars, scVars>>

DetExit ==
    /\ rpDet.status = "running"
    /\ rpDet.started = rpDet.completed
    /\ rpDet' = [rpDet EXCEPT !.status = "exited"]
    /\ UNCHANGED <<roPc, roDet, roSim, rpSim, fxVars, wVars, dbVars, fuVars, scVars>>

\* the simulation loop, while it is not stopped
SimBegin ==
    /\ rpSim.status = "running"
    /\ rpSim.started = rpSim.completed
    /\ rpSim.started < MaxIterations
    /\ rpSim' = BeginIteration(rpSim)
    /\ UNCHANGED <<roPc, roDet, roSim, rpDet, fxVars, wVars, dbVars, fuVars, scVars>>

SimEnd ==
    /\ rpSim.status = "running"
    /\ rpSim.started > rpSim.completed
    /\ rpSim' = EndIteration(rpSim)
    /\ UNCHANGED <<roPc, roDet, roSim, rpDet, fxVars, wVars, dbVars, fuVars, scVars>>

SimExit ==
    /\ rpSim.status = "running"
    /\ rpSim.started = rpSim.completed
    /\ rpSim' = [rpSim EXCEPT !.status = "exited"]
    /\ UNCHANGED <<roPc, roDet, roSim, rpDet, fxVars, wVars, dbVars, fuVars, scVars>>

ReplayInit ==
    /\ roPc = "popenDet"
    /\ roDet = "none"
    /\ roSim = "none"
    /\ rpDet = NoChild
    /\ rpSim = NoChild

ReplayNext ==
    \/ PopenDet
    \/ StopDet
    \/ PopenSim
    \/ StopSim
    \/ While
    \/ ResumeDet
    \/ ReadDet
    \/ ResumeSim
    \/ ReadSim
    \/ DetBegin
    \/ DetEnd
    \/ DetExit
    \/ SimBegin
    \/ SimEnd
    \/ SimExit

ReplayStart == ReplayInit /\ FixIdle /\ WindowIdle /\ WriterIdle /\ FusionIdle /\ LoopsIdle

ReplaySpec == ReplayStart /\ [][ReplayNext]_vars

\* C3: the simulation loop has begun no more iterations than the detector
\* loop has completed.
SimulationFollowsDetector == rpSim.started <= rpDet.completed

-----------------------------------------------------------------------------
(* tools.py: roundToMinute, one call *)

ROUND_UP == 1
ROUND_DOWN == 2
ROUND_HALF_UP == 3

\* timedelta.seconds: the part of a timedelta below one day
timedeltaSeconds(interval) == interval % DaySeconds

roundToMinute(date, interval, roundType) ==
    LET seconds == daySecond(date)
    IN  IF timedeltaSeconds(interval) = 0
        THEN [raised |-> "ZeroDivisionError", value |-> 0]
        ELSE IF DaySeconds % timedeltaSeconds(interval) # 0
        THEN [raised |-> "AssertionError", value |-> 0]
        ELSE IF seconds % timedeltaSeconds(interval) = 0
        THEN [raised |-> "none", value |-> date]
        ELSE IF roundType = ROUND_DOWN
        THEN [raised |-> "none",
              value |-> RoundSeconds(date, timedeltaSeconds(interval), 0)]
        ELSE IF roundType = ROUND_HALF_UP
        THEN [raised |-> "none",
              value |-> RoundSeconds(date, timedeltaSeconds(interval),
                                     timedeltaSeconds(interval))]
        ELSE IF roundType = ROUND_UP
        THEN [raised |-> "none",
              value |-> RoundSeconds(date, timedeltaSeconds(interval),
                                     2 * timedeltaSeconds(interval))]
        ELSE [raised |-> "ValueError", value |-> 0]

\* the dates and intervals tried: around the multiples of the intervals, the
\* half-way points and the day boundary; one interval that does not divide
\* the day and one of a whole day
RoundDates == {0, 1, 29, 30, 31, 449, 450, 451, 899, 900, 1799, 3599, 21600,
               43199, 43200, 64801, 86399, 86400, 86401, 86850, 129600,
               172799}

RoundIntervals == {60, 900, 1800, 3600, 7000, 43200, 86400}

RoundTypes == {ROUND_UP, ROUND_DOWN, ROUND_HALF_UP}

RoundInit ==
    /\ rnPc = "start"
    /\ rnDate \in RoundDates
    /\ rnInterval \in RoundIntervals
    /\ rnType \in RoundTypes
    /\ rnResult = NoRound

Round ==
    /\ rnPc = "start"
    /\ rnResult' = roundToMinute(rnDate, rnInterval, rnType)
    /\ rnPc' = "done"
    /\ UNCHANGED <<rnDate, rnInterval, rnType, coreVars, loVars, stVars, cpVars,
                   xtVars,
                   smVars, exVars>>

RoundNext == Round

RoundStart ==
    /\ RoundInit
    /\ FixIdle /\ WindowIdle /\ WriterIdle /\ FusionIdle /\ ReplayIdle
    /\ SchedulerIdle /\ StepIdle /\ CopyIdle /\ SimIdle /\ ExtrapolationIdle
    /\ ExtraIdle

RoundSpec == RoundStart /\ [][RoundNext]_vars

\* a date whose second of the day is a multiple of the interval
Aligned(date, interval) == daySecond(date) % interval = 0

\* the largest aligned date not after the date, the smallest not before it
AlignedBelow(date, interval) ==
    CHOOSE x \in (date - interval + 1) .. date : Aligned(x, interval)

AlignedAbove(date, interval) ==
    CHOOSE x \in date .. (date + interval - 1) : Aligned(x, interval)

AlignedNearest(date, interval) ==
    IF date - AlignedBelow(date, interval) < AlignedAbove(date, interval) - date
    THEN AlignedBelow(date, interval)
    ELSE AlignedAbove(date, interval)

RoundingAsStated ==
    /\ rnResult.raised = "none"
    /\ rnType = ROUND_DOWN => rnResult.value = AlignedBelow(rnDate, rnInterval)
    /\ rnType = ROUND_UP => rnResult.value = AlignedAbove(rnDate, rnInterval)
    /\ rnType = ROUND_HALF_UP
           => rnResult.value = AlignedNearest(rnDate, rnInterval)

\* C18: for every interval whose length in seconds divides 86400, ROUND_DOWN
\* gives the largest aligned date not after the date, ROUND_UP the smallest
\* aligned date not before it, ROUND_HALF_UP the nearest one, ties upward.
RoundingGivesAlignedDate ==
    (rnPc = "done" /\ DaySeconds % rnInterval = 0) => RoundingAsStated

\* the same for the intervals shorter than a day
RoundingBelowADay ==
    (rnPc = "done" /\ DaySeconds % rnInterval = 0 /\ rnInterval < DaySeconds)
        => RoundingAsStated

\* a call with an interval of one whole day
RoundedToADay == rnPc = "done" /\ rnInterval = DaySeconds

-----------------------------------------------------------------------------
(* main.py: _init and _startLoop, running correctDetector.main *)

\* the invocations of the iteration function a run is followed for
MaxLoopCalls == 4

\* the pause before a restart of the loop (secondsToRestart)
secondsToRestart == 60

\* tools.dayMinute
dayMinute(time) == daySecond(time) \div 60

\* datetime.minute
minuteOfHour(time) == dayMinute(time) % 60

\* the steps of correctDetector.main that are switched on: correction,
\* aggregation of the detector data, fusion
NumSteps == 3

\* the configurations tried: a start late in the evening and one at half past
\* four, repeats of 30 and 90 minutes and one that does not divide the day,
\* with and without delay, a clock that starts at the start time or two hours
\* after it, and a regular lookback below and above the first one
LoopBegins == {16200, 82900}
LoopRepeats == {1800, 5400, 7000}
LoopDelays == {0, 120}
LoopClocks == {0, 7200}
Lookbacks == {<<3600, 1800>>, <<1800, 5400>>}
MainSeconds == {60, 2400}

LoopConfigs ==
    {[begin |-> b, end |-> 88200, repeat |-> r, delay |-> d, now |-> b + c,
      firstlookback |-> l[1], lookback |-> l[2]] :
        b \in LoopBegins, r \in LoopRepeats, d \in LoopDelays, c \in LoopClocks,
        l \in Lookbacks}

SchedulerInit ==
    /\ loPc = "init"
    /\ loCfg \in LoopConfigs
    /\ loStart = 0
    /\ loNow = loCfg.now
    /\ loEndReached = FALSE
    /\ loContinue = FALSE
    /\ loCall = NoCall
    /\ loMain = NoMain
    /\ loPrev = NoPrev

\* the window variables the scheduler's run does not touch
wRest == <<wPc, wOrigData, wArgs, wIgnore, wRows, wHasLkw, wCheckDoubling,
           wCorrected, hLast, hReported>>

loOthers == <<fxVars, dbVars, fuVars, rpVars, rnVars, stVars, cpVars, smVars, exVars,
              xtVars,
              wRest>>

\* the forward bump of _init: the start time after it
bumped(startTime, repeat) ==
    IF (60 * minuteOfHour(startTime)) % timedeltaSeconds(repeat) > 0
    THEN startTime + (timedeltaSeconds(repeat)
                        - ((60 * minuteOfHour(startTime)) % timedeltaSeconds(repeat)))
    ELSE startTime

\* _init: the repeat is checked, the start time rounded down and bumped
_init ==
    /\ loPc = "init"
    /\ IF timedeltaSeconds(loCfg.repeat) = 0
          \/ DaySeconds % timedeltaSeconds(loCfg.repeat) > 0
       THEN /\ loPc' = "dead"
            /\ UNCHANGED loStart
       ELSE /\ loPc' = "loop"
            /\ loStart' = bumped(roundToMinute(loCfg.begin, loCfg.repeat,
                                               ROUND_DOWN).value, loCfg.repeat)
    /\ UNCHANGED <<loCfg, loNow, loEndReached, loContinue, loCall, loMain, loPrev,
                   wZero, wData, errorOnLastRun, loOthers>>

\* mainFunc(isFirst, beginNewDay, ...) is entered for the start time, after
\* the scheduler slept the given seconds
Invoke(isFirst, beginNewDay, startTime, slept) ==
    /\ loCall.n < MaxLoopCalls
    /\ loStart' = startTime
    /\ loNow' = loNow + slept
    /\ loCall' = [n |-> loCall.n + 1, isFirst |-> isFirst,
                  beginNewDay |-> beginNewDay, startTime |-> startTime,
                  at |-> loNow + slept]
    /\ loPrev' = [raised |-> loMain.raised, ran |-> loMain.ran]
    /\ loMain' = NoMain
    /\ loPc' = "main"
    /\ UNCHANGED <<loCfg, loContinue, wZero, wData, errorOnLastRun, loOthers>>

\* "Executing first step immediately"
FirstCall ==
    /\ loPc = "loop"
    /\ Invoke(TRUE, FALSE, loStart, 0)
    /\ UNCHANGED loEndReached

\* waitTime of the pass of the while loop that is about to run
waitTime == (loStart + loCfg.repeat) + loCfg.delay - loNow

WhileHolds == loPc = "while" /\ loContinue /\ loStart < loCfg.end

\* "Starting new day": the iteration function is called at once
NewDayCall ==
    /\ WhileHolds
    /\ dayMinute(loStart + loCfg.repeat) = 0
    /\ Invoke(FALSE, TRUE, loStart + loCfg.repeat, 0)
    /\ loEndReached' = (loEndReached \/ loStart + loCfg.repeat >= loCfg.end)

\* "Waiting %i seconds till begin.": time.sleep(waitTime.seconds)
WaitCall ==
    /\ WhileHolds
    /\ dayMinute(loStart + loCfg.repeat) # 0
    /\ waitTime > 0
    /\ Invoke(FALSE, FALSE, loStart + loCfg.repeat, timedeltaSeconds(waitTime))
    /\ loEndReached' = (loEndReached \/ loStart + loCfg.repeat >= loCfg.end)

\* "Delayed by %s!"
DelayedCall ==
    /\ WhileHolds
    /\ dayMinute(loStart + loCfg.repeat) # 0
    /\ waitTime <= 0
    /\ Invoke(FALSE, FALSE, loStart + loCfg.repeat, 0)
    /\ loEndReached' = (loEndReached \/ loStart + loCfg.repeat >= loCfg.end)

\* the while loop is left: "Loop ended"
LoopEnded ==
    /\ loPc = "while"
    /\ ~(loContinue /\ loStart < loCfg.end)
    /\ loPc' = "ended"
    /\ UNCHANGED <<loCfg, loStart, loNow, loEndReached, loContinue, loCall, loMain,
                   loPrev, wZero, wData, errorOnLastRun, loOthers>>

\* "Trying again, new loop start in 60 seconds..."
Restart ==
    /\ loPc = "ended"
    /\ ~loEndReached
    /\ loNow' = loNow + secondsToRestart
    /\ loPc' = "loop"
    /\ UNCHANGED <<loCfg, loStart, loEndReached, loContinue, loCall, loMain, loPrev,
                   wZero, wData, errorOnLastRun, loOthers>>

\* "End time reached, exiting."
Exit ==
    /\ loPc = "ended"
    /\ loEndReached
    /\ loPc' = "exit"
    /\ UNCHANGED <<loCfg, loStart, loNow, loEndReached, loContinue, loCall, loMain,
                   loPrev, wZero, wData, errorOnLastRun, loOthers>>


\* how a step function ends: it returns, raises an exception, or the user
\* interrupts it
Outcomes == {"return", "raise", "interrupt"}

\* pythonStep without the note of the error
pythonStep_silent(outcome, error) == error

\* pythonStep: setting.errorOnLastRun after a step that ended this way; a
\* KeyboardInterrupt is raised again
pythonStep(outcome, error) == IF outcome = "raise" THEN TRUE ELSE error

\* correctDetector.main up to the steps: the times are set and
\* errorOnLastRun is cleared
MainBegin ==
    /\ loPc = "main"
    /\ loMain.step = 0
    /\ LET isFirst == loCall.isFirst \/ loCall.beginNewDay \/ errorOnLastRun
       IN  loMain' = [NoMain EXCEPT
                         !.isFirst = isFirst,
                         !.correctStart =
                             IF isFirst THEN loStart - loCfg.firstlookback
                             ELSE loStart - loCfg.lookback,
                         !.step = 1]
    /\ errorOnLastRun' = FALSE
    /\ UNCHANGED <<loPc, loCfg, loStart, loNow, loEndReached, loContinue, loCall,
                   loPrev, wZero, wData, loOthers>>

\* a KeyboardInterrupt leaves main and is caught by _startLoop: "Loop
\* terminated unexpectedly."
Interrupted ==
    /\ loPc' = "ended"
    /\ UNCHANGED <<loMain, errorOnLastRun, loContinue>>

\* a step ended by returning or by an exception that pythonStep caught
Stepped(outcome, asserted, reset) ==
    /\ loPc' = loPc
    /\ loMain' = [loMain EXCEPT !.step = @ + 1, !.ran = @ + 1,
                                !.raised = @ \/ outcome = "raise",
                                !.asserted = @ \/ asserted,
                                !.reset = @ \/ (loMain.step = 1 /\ reset)]
    /\ errorOnLastRun' = pythonStep(outcome, errorOnLastRun)
    /\ UNCHANGED loContinue

\* step 1, pythonStep(correctDetector): the window is reset on a first run,
\* then advanced to the new zero time; the rest of the function returns or
\* raises
CorrectStep ==
    /\ loPc = "main"
    /\ loMain.step = 1
    /\ LET correctStart == loMain.correctStart + UpdateInterval
           forecastEnd == loStart + UpdateInterval
           doReset == loMain.isFirst \/ DOMAIN wData = {}
           zero == IF doReset THEN NoTime ELSE wZero
           data == IF doReset THEN [det \in Dets |-> <<>>] ELSE wData
           newZeroTime == roundDown(correctStart - 2 * MAX_GAP_TIME, UpdateInterval)
       IN  IF zero # NoTime /\ ~(zero <= newZeroTime)
           THEN /\ wZero' = zero
                /\ wData' = data
                /\ Stepped("raise", TRUE, doReset)
           ELSE /\ wZero' = newZeroTime
                /\ wData' = prepare_dataLists(zero, data, newZeroTime, forecastEnd)
                /\ \E outcome \in Outcomes :
                       IF outcome = "interrupt" THEN Interrupted
                       ELSE Stepped(outcome, FALSE, doReset)
    /\ UNCHANGED <<loCfg, loStart, loNow, loEndReached, loCall, loPrev, loOthers>>

\* steps 2 to NumSteps, each under pythonStep
LaterStep ==
    /\ loPc = "main"
    /\ loMain.step \in 2 .. NumSteps
    /\ \E outcome \in Outcomes :
           IF outcome = "interrupt" THEN Interrupted
           ELSE Stepped(outcome, FALSE, FALSE)
    /\ UNCHANGED <<loCfg, loStart, loNow, loEndReached, loCall, loPrev, wZero,
                   wData, loOthers>>

\* "Duration:" and return result != False; the correction step gave True or,
\* after an exception, None
MainEnd ==
    /\ loPc = "main"
    /\ loMain.step = NumSteps + 1
    /\ \E seconds \in MainSeconds : loNow' = loNow + seconds
    /\ loContinue' = TRUE
    /\ loPc' = "while"
    /\ UNCHANGED <<loCfg, loStart, loEndReached, loCall, loMain, loPrev, wZero,
                   wData, errorOnLastRun, loOthers>>

SchedulerNext ==
    \/ _init
    \/ FirstCall
    \/ NewDayCall
    \/ WaitCall
    \/ DelayedCall
    \/ LoopEnded
    \/ Restart
    \/ Exit
    \/ MainBegin
    \/ CorrectStep
    \/ LaterStep
    \/ MainEnd

SchedulerStart ==
    /\ SchedulerInit
    /\ FixIdle /\ WindowIdle /\ WriterIdle /\ FusionIdle /\ ReplayIdle
    /\ RoundIdle /\ StepIdle /\ CopyIdle /\ SimIdle /\ ExtrapolationIdle
    /\ ExtraIdle

SchedulerSpec == SchedulerStart /\ [][SchedulerNext]_vars

\* C11: when a step of an iteration raised an exception, the remaining steps
\* of the iteration ran and the loop goes on, and the next iteration resets
\* the sliding window.
StepErrorForcesReset ==
    /\ (loPc = "while" /\ loMain.raised) => (loMain.ran = NumSteps /\ loContinue)
    /\ (loPc = "main" /\ loMain.step >= 2 /\ loPrev.raised)
           => (loMain.isFirst /\ loMain.reset)

\* a regular iteration that reset the window because the one before raised
ResetAfterStepError ==
    /\ loPc = "main"
    /\ loMain.step >= 2
    /\ loPrev.raised
    /\ loPrev.ran = NumSteps
    /\ ~loCall.isFirst
    /\ ~loCall.beginNewDay
    /\ loMain.reset

\* C12: every iteration after the first is started no earlier than
\* startTime + delay, the iteration of a day boundary included.
IterationStartsAfterDelay ==
    (loCall.n >= 1 /\ ~loCall.isFirst)
        => loCall.at >= loCall.startTime + loCfg.delay

\* C13: at every invocation of the iteration function the second of the day
\* of startTime is a multiple of the repeat interval.
StartTimeAligned ==
    loCall.n >= 1 => daySecond(loCall.startTime) % loCfg.repeat = 0

\* C20: the assertion zeroIndexTime <= newZeroTime of prepare_dataLists never
\* fails in an iteration the scheduler runs.
AdvancePreconditionHolds == ~loMain.asserted

-----------------------------------------------------------------------------
(* step.py: pythonStep around a step function *)

\* the calls of pythonStep a run is followed for
MaxStepRuns == 3

wNoError == <<wPc, wZero, wData, wOrigData, wArgs, wIgnore, wRows, wHasLkw,
              wCheckDoubling, wCorrected, hLast, hReported>>

stOthers == <<fxVars, dbVars, fuVars, rpVars, rnVars, loVars, cpVars, smVars,
              xtVars,
              exVars, wNoError>>

\* lines 69-84: sys.stderr is pointed at the capture file (checkDir given) or
\* at a TeeFile over stdout and a temporary file
StepEnter ==
    /\ stPc = "idle"
    /\ stArgs.calls < MaxStepRuns
    /\ \E checkDir \in BOOLEAN, usesDb \in BOOLEAN :
           /\ stArgs' = [calls |-> stArgs.calls + 1, checkDir |-> checkDir,
                         usesDb |-> usesDb]
           /\ stStderr' = IF checkDir THEN "file" ELSE "tee"
    /\ stFile' = "open"
    /\ stConn' = "none"
    /\ stEnd' = "none"
    /\ stPc' = "opened"
    /\ UNCHANGED <<stStep, stUnclosed, errorOnLastRun, stOthers>>

\* the function returns; a function with a connection (correctDetector) has
\* closed it; temp.close() or sys.stderr.close()
StepReturns ==
    /\ stPc = "opened"
    /\ stConn' = IF stArgs.usesDb THEN "closed" ELSE "none"
    /\ stFile' = "closed"
    /\ stEnd' = "returned"
    /\ stPc' = "finish"
    /\ UNCHANGED <<stArgs, stStderr, stStep, stUnclosed, errorOnLastRun, stOthers>>

\* the connection of a function that left by an exception: execSQL closes it
\* when a statement fails; otherwise the function has no close() on the way
\* out and the connection is left to the collector
connAfterRaise(usesDb, inQuery) ==
    IF ~usesDb THEN "none"
    ELSE IF inQuery THEN "closed"
    ELSE "dropped"

\* the function raises an exception: "Exception caught!", errorOnLastRun is
\* set; the capture file is not closed
StepRaises ==
    /\ stPc = "opened"
    /\ \E inQuery \in BOOLEAN : stConn' = connAfterRaise(stArgs.usesDb, inQuery)
    /\ errorOnLastRun' = TRUE
    /\ stEnd' = "caught"
    /\ stPc' = "finish"
    /\ UNCHANGED <<stArgs, stStderr, stFile, stStep, stUnclosed, stOthers>>

\* KeyboardInterrupt: "Interrupted!" and raise; pythonStep ends here, with
\* sys.stderr still on the capture file
StepInterrupted ==
    /\ stPc = "opened"
    /\ stConn' = connAfterRaise(stArgs.usesDb, FALSE)
    /\ stEnd' = "interrupted"
    /\ stPc' = "idle"
    /\ stUnclosed' = stUnclosed + 1 + (IF stArgs.usesDb THEN 1 ELSE 0)
    /\ UNCHANGED <<stArgs, stStderr, stFile, stStep, errorOnLastRun, stOthers>>

\* _checkOutput, the removal of the temporary file, sys.stderr =
\* sys.__stderr__, return result; a capture file that was not closed loses
\* its last reference here
StepFinish ==
    /\ stPc = "finish"
    /\ stStep' = stStep + 1
    /\ stStderr' = "process"
    /\ stFile' = IF stFile = "open" THEN "dropped" ELSE stFile
    /\ stUnclosed' = stUnclosed + (IF stFile = "open" THEN 1 ELSE 0)
                                + (IF stConn = "dropped" THEN 1 ELSE 0)
    /\ stPc' = "idle"
    /\ UNCHANGED <<stArgs, stConn, stEnd, errorOnLastRun, stOthers>>

StepInit ==
    /\ stPc = "idle"
    /\ stArgs = NoStepArgs
    /\ stStderr = "process"
    /\ stFile = "none"
    /\ stConn = "none"
    /\ stEnd = "none"
    /\ stStep = 1
    /\ stUnclosed = 0

StepNext ==
    \/ StepEnter
    \/ StepReturns
    \/ StepRaises
    \/ StepInterrupted
    \/ StepFinish

StepStart ==
    /\ StepInit
    /\ FixIdle /\ WindowIdle /\ WriterIdle /\ FusionIdle /\ ReplayIdle
    /\ RoundIdle /\ SchedulerIdle /\ CopyIdle /\ SimIdle /\ ExtrapolationIdle
    /\ ExtraIdle

StepSpec == StepStart /\ [][StepNext]_vars

\* C17: after pythonStep has ended, by a return, a caught exception or a
\* KeyboardInterrupt, sys.stderr is the process stderr again, the capture
\* file is closed and the connection of the step is closed.
StepReleasesResources ==
    (stPc = "idle" /\ stEnd # "none")
        => /\ stStderr = "process"
           /\ stFile = "closed"
           /\ stConn \in {"none", "closed"}

-----------------------------------------------------------------------------
(* simulationRun.py: copyBackupClean *)

\* the viewer directories of the option viewerData
NumViewers == 2
ViewerDirs == 1 .. NumViewers

\* the result files, in the order they are copied
ResultFiles == <<"simulation", "prediction", "compare">>

cpOthers == <<coreVars, rnVars, loVars, stVars, smVars, exVars, xtVars>>

CopyInit ==
    /\ cpPc = "lock"
    /\ cpExists \in SUBSET {"simulation", "prediction", "compare"}
    /\ cpDir = 1
    /\ cpFile = 1
    /\ cpLocks \in SUBSET ViewerDirs
    /\ cpCopied = {}
    /\ cpUnlocked = {}

\* "locking": lock.txt is written into the viewer directory
Lock ==
    /\ cpPc = "lock"
    /\ cpDir \in ViewerDirs
    /\ cpLocks' = cpLocks \cup {cpDir}
    /\ cpFile' = 1
    /\ cpPc' = "copy"
    /\ UNCHANGED <<cpExists, cpDir, cpCopied, cpUnlocked, cpOthers>>

\* one pass of the loop over the result files: a file that exists is copied;
\* shutil.copyfile may raise, which ends copyBackupClean
Copy ==
    /\ cpPc = "copy"
    /\ cpFile <= Len(ResultFiles)
    /\ IF ResultFiles[cpFile] \in cpExists
       THEN \E raised \in BOOLEAN :
               IF raised
               THEN /\ cpPc' = "raised"
                    /\ UNCHANGED <<cpFile, cpCopied, cpUnlocked>>
               ELSE /\ cpCopied' = cpCopied \cup {<<cpDir, ResultFiles[cpFile]>>}
                    /\ cpUnlocked' =
                           IF cpDir \in cpLocks THEN cpUnlocked
                           ELSE cpUnlocked \cup {<<cpDir, ResultFiles[cpFile]>>}
                    /\ cpFile' = cpFile + 1
                    /\ cpPc' = "copy"
       ELSE /\ cpFile' = cpFile + 1
            /\ UNCHANGED <<cpPc, cpCopied, cpUnlocked>>
    /\ UNCHANGED <<cpExists, cpDir, cpLocks, cpOthers>>

\* "unlocking": lock.txt is removed, the next viewer directory follows
Unlock ==
    /\ cpPc = "copy"
    /\ cpFile > Len(ResultFiles)
    /\ cpLocks' = cpLocks \ {cpDir}
    /\ cpDir' = cpDir + 1
    /\ cpPc' = IF cpDir = NumViewers THEN "clean" ELSE "lock"
    /\ UNCHANGED <<cpExists, cpFile, cpCopied, cpUnlocked, cpOthers>>

\* the old directories and the big state files are deleted; the function
\* returns
Clean ==
    /\ cpPc = "clean"
    /\ cpPc' = "done"
    /\ UNCHANGED <<cpExists, cpDir, cpFile, cpLocks, cpCopied, cpUnlocked,
                   cpOthers>>

CopyNext ==
    \/ Lock
    \/ Copy
    \/ Unlock
    \/ Clean

CopyStart ==
    /\ CopyInit
    /\ FixIdle /\ WindowIdle /\ WriterIdle /\ FusionIdle /\ ReplayIdle
    /\ RoundIdle /\ SchedulerIdle /\ StepIdle /\ SimIdle /\ ExtrapolationIdle
    /\ ExtraIdle

CopySpec == CopyStart /\ [][CopyNext]_vars

\* C16: lock.txt is present during every copy, and once the copy step has
\* ended, normally or by an exception during copying, no viewer directory
\* holds a lock.txt.
LockBracketsCopies ==
    /\ cpUnlocked = {}
    /\ cpPc \in {"done", "raised"} => cpLocks = {}

-----------------------------------------------------------------------------
(* simulationRun.py: main, one iteration after the other *)

\* the calls of simulationRun.main a run is followed for
MaxSimCalls == 3

\* the Loop options repeat and prefirst, and the start time of the loop (23:30)
\* the Loop options repeat and prefirst (seconds) and the start time of the
\* loop (23:30)
SimLoop == [repeat |-> 1800, prefirst |-> 3600, starttime |-> 84600]
SimRepeat == SimLoop.repeat
SimPrefirst == SimLoop.prefirst
SimStartTime == SimLoop.starttime

SimOptions ==
    [clearState : BOOLEAN, emissionOutput : BOOLEAN, clean : BOOLEAN,
     overlap : {0, 900}, forecast : {900, 3600}]

smOthers == <<coreVars, rnVars, loVars, stVars, cpVars, exVars, xtVars>>

SimInit ==
    /\ smPc = "call"
    /\ smOpt \in SimOptions
    /\ smStart = SimStartTime
    /\ smArgs = NoSimCall
    /\ smLocal = NoLocal
    /\ smFiles = {}
    /\ smDumps = {}
    /\ smCfg = NoSumocfg
    /\ smDb = {}
    /\ smResult = "none"

\* _startLoop: the first step of a loop start is called with doStartEmpty,
\* a later one, after main returned True, without it and for startTime +
\* repeat; after False or an exception the loop is started again
SimCall ==
    /\ smPc = "call"
    /\ smArgs.n < MaxSimCalls
    /\ smArgs' = [n |-> smArgs.n + 1, doStartEmpty |-> smResult # "true"]
    /\ smStart' = IF smResult = "true" THEN smStart + SimRepeat ELSE smStart
    /\ smLocal' = NoLocal
    /\ smDb' = {}
    /\ smResult' = "none"
    /\ smPc' = "enter"
    /\ UNCHANGED <<smOpt, smFiles, smDumps, smCfg, smOthers>>

\* main returns the value, or is left by the exception
Leave(result) ==
    /\ smResult' = result
    /\ smPc' = "call"

\* lines 134-158: the cleaning of a first run, the times, the check of
\* saveStateTime
SimEnter ==
    /\ smPc = "enter"
    /\ LET simBegin == IF smArgs.doStartEmpty THEN smStart - SimPrefirst
                       ELSE smStart - smOpt.overlap
           saveStateTime == (smStart - smOpt.overlap) + SimRepeat
           simEnd == smStart + smOpt.forecast
       IN  /\ smDb' = IF smOpt.clean /\ smArgs.doStartEmpty THEN {"cleanUp"}
                      ELSE {}
           /\ IF saveStateTime < simBegin \/ saveStateTime >= simEnd
              THEN Leave("false") /\ UNCHANGED smLocal
              ELSE /\ smLocal' = [NoLocal EXCEPT
                                      !.doStartEmpty = smArgs.doStartEmpty,
                                      !.simBegin = simBegin]
                   /\ smPc' = "dirs"
                   /\ UNCHANGED smResult
    /\ UNCHANGED <<smOpt, smStart, smArgs, smFiles, smDumps, smCfg, smOthers>>

\* buildDirs: the state file is the one in the output directory of
\* currTime - repeat
buildDirs(currTime, repeat) == currTime - repeat

\* "Building directories" and "Generating calibrator input": a step that
\* gave None ends the iteration with False
SimPrepare ==
    /\ smPc = "dirs"
    /\ \E failed \in BOOLEAN :
           IF failed
           THEN Leave("false") /\ UNCHANGED smLocal
           ELSE /\ smLocal' = [smLocal EXCEPT
                                   !.statefile = buildDirs(smStart, SimRepeat)]
                /\ smPc' = "config"
                /\ UNCHANGED smResult
    /\ UNCHANGED <<smOpt, smStart, smArgs, smFiles, smDumps, smCfg, smDb,
                   smOthers>>

\* startsEmpty with the option clearState left out
startsEmpty_keepState(doStartEmpty, exists, clearState, simbegSec) ==
    doStartEmpty \/ ~exists

\* lines 207-215: doStartEmpty after the look for the state file and at the
\* option clearState
startsEmpty(doStartEmpty, exists, clearState, simbegSec) ==
    \/ doStartEmpty
    \/ ~exists
    \/ (clearState /\ simbegSec = 0)

\* lines 262-266 and 278: the state part of pre.sumocfg
sumocfg(doStartEmpty, statefile, simbegSec) ==
    [loadState |-> IF doStartEmpty THEN NoTime ELSE statefile,
     offset |-> IF ~doStartEmpty /\ simbegSec = 0 THEN <<DaySeconds>> ELSE <<>>,
     begin |-> simbegSec]

\* lines 207-292: the state file is looked for, the dump definitions are
\* prepared (prepare_dump uses emissionInterpretation, which is only bound
\* with emissionOutput), and pre.sumocfg is written
SimConfig ==
    /\ smPc = "config"
    /\ LET simbegSec == daySecond(smLocal.simBegin)
           exists == smLocal.statefile \in smFiles
           empty == startsEmpty(smLocal.doStartEmpty, exists, smOpt.clearState,
                                simbegSec)
       IN  IF ~smOpt.emissionOutput
           THEN Leave("raised") /\ UNCHANGED <<smLocal, smCfg>>
           ELSE /\ smLocal' = [smLocal EXCEPT !.doStartEmpty = empty,
                                              !.stateExists = exists]
                /\ smCfg' = [n |-> smArgs.n] @@
                            sumocfg(empty, smLocal.statefile, simbegSec)
                /\ smPc' = "sumo"
                /\ UNCHANGED smResult
    /\ UNCHANGED <<smOpt, smStart, smArgs, smFiles, smDumps, smDb, smOthers>>

\* lines 294-297: SUMO is run; it may leave its dump file and its state
\* file in the output directory of the iteration; a binary that cannot be
\* started raises
SimSumo ==
    /\ smPc = "sumo"
    /\ \E started \in BOOLEAN, dumped \in BOOLEAN, saved \in BOOLEAN :
           IF ~started
           THEN Leave("raised") /\ UNCHANGED <<smFiles, smDumps>>
           ELSE /\ smFiles' = IF saved THEN smFiles \cup {smStart} ELSE smFiles
                /\ smDumps' = IF dumped THEN smDumps \cup {smStart} ELSE smDumps
                /\ smPc' = "results"
                /\ UNCHANGED smResult
    /\ UNCHANGED <<smOpt, smStart, smArgs, smLocal, smCfg, smDb, smOthers>>

\* resultSteps that does not look for the dump file
resultSteps_always(dumpExists, emissionExists) ==
    {"interpret_dump", "generateComparison", "copyBackupClean"}
        \cup (IF emissionExists THEN {"interpret_emission"} ELSE {})

\* lines 299-325: the steps run for the results of the simulation
resultSteps(dumpExists, emissionExists) ==
    IF dumpExists
    THEN {"interpret_dump", "generateComparison", "copyBackupClean"}
             \cup (IF emissionExists THEN {"interpret_emission"} ELSE {})
    ELSE {}

\* lines 299-333: the results are written, copied and cleaned up when the
\* dump file is there (copyBackupClean deletes state files, oldest first,
\* while the disk is short); "Duration:" and return True
SimResults ==
    /\ smPc = "results"
    /\ \E emissionExists \in BOOLEAN :
           smDb' = smDb \cup resultSteps(smStart \in smDumps, emissionExists)
    /\ \E short \in BOOLEAN :
           smFiles' = IF smStart \in smDumps /\ short THEN {} ELSE smFiles
    /\ Leave("true")
    /\ UNCHANGED <<smOpt, smStart, smArgs, smLocal, smDumps, smCfg, smOthers>>

SimNext ==
    \/ SimCall
    \/ SimEnter
    \/ SimPrepare
    \/ SimConfig
    \/ SimSumo
    \/ SimResults

SimStart ==
    /\ SimInit
    /\ FixIdle /\ WindowIdle /\ WriterIdle /\ FusionIdle /\ ReplayIdle
    /\ RoundIdle /\ SchedulerIdle /\ StepIdle /\ CopyIdle /\ ExtrapolationIdle
    /\ ExtraIdle

SimSpec == SimStart /\ [][SimNext]_vars

\* the iteration has written its configuration and is about to run SUMO
ConfigWritten == smPc = "sumo" /\ smCfg.n = smArgs.n

\* a call without doStartEmpty that found the state file of the iteration
\* before
FoundState == ~smArgs.doStartEmpty /\ smLocal.stateExists

\* the configuration loads that state file, with the offset of a day exactly
\* when the simulation begins at second 0 of the day
LoadsThatState ==
    /\ smCfg.loadState = smStart - SimRepeat
    /\ smCfg.offset = IF smCfg.begin = 0 THEN <<DaySeconds>> ELSE <<>>

MissingDumpSkipsWrites ==
    [][/\ (smPc = "results" /\ smStart \notin smDumps)
           => /\ smResult' = "true"
              /\ smDb' \cap {"interpret_dump", "interpret_emission"} = {}
       /\ (smPc = "call" /\ smResult = "true")
           => /\ smStart' = smStart + SimRepeat
              /\ ~smArgs'.doStartEmpty]_vars

\* an iteration that ran SUMO, found no dump file and returned True
ReturnedWithoutDump ==
    /\ smPc = "call"
    /\ smResult = "true"
    /\ smStart \notin smDumps
    /\ smCfg.n = smArgs.n

-----------------------------------------------------------------------------
(* extrapolation.py: the feedback extrapolation of one edge *)

TIME_OFFSETS == <<7 * DaySeconds, 14 * DaySeconds, 21 * DaySeconds>>
SMOOTHING_WIDTH == 2

\* range(-SMOOTHING_WIDTH, SMOOTHING_WIDTH + 1)
SMOOTHING_RANGE ==
    [k \in 1 .. (2 * SMOOTHING_WIDTH + 1) |-> k - 1 - SMOOTHING_WIDTH]

\* a loaded value (q, v) of timeValues; each part is a number or None
TimeValue(q, v) == [FLOW |-> q, SPEED |-> v]

\* tools.safeBinaryOperator(operator.sub)
SAFE_SUB(a, b) == IF ~IsNone(a) /\ ~IsNone(b) THEN RSub(a, b) ELSE None

\* tools.getIntervalEndsBetween
RECURSIVE getIntervalEndsBetween(_, _, _)
getIntervalEndsBetween(start, end, intervalLength) ==
    IF start < end
    THEN <<start + intervalLength>>
             \o getIntervalEndsBetween(start + intervalLength, end, intervalLength)
    ELSE <<>>

\* the built-in sum over a list of numbers
RECURSIVE sum(_)
sum(values) ==
    IF values = <<>> THEN R(0) ELSE RAdd(Head(values), sum(Tail(values)))

safe_avg(values) ==
    LET actualValues == SelectSeq(values, LAMBDA v : ~IsNone(v))
    IN  IF Len(actualValues) > 0
        THEN RDiv(sum(actualValues), R(Len(actualValues)))
        ELSE None

\* main, line 190: [o + i * intervalLength for o in TIME_OFFSETS for i in
\* SMOOTHING_RANGE]; the values are distinct for the interval lengths used,
\* so that the set has these elements
offsets(intervalLength) ==
    LET n == Len(SMOOTHING_RANGE)
    IN  [k \in 1 .. (Len(TIME_OFFSETS) * n) |->
             TIME_OFFSETS[((k - 1) \div n) + 1]
                 + SMOOTHING_RANGE[((k - 1) % n) + 1] * intervalLength]

\* timeValues.get(time): <<>> for None, else the value in a list of one
get(timeValues, time) ==
    IF time \in DOMAIN timeValues THEN <<timeValues[time]>> ELSE <<>>

\* the predictor of smooth_predictor(offsets)
smooth_predictor(offs, timeValues, time) ==
    LET maybeValues == [k \in DOMAIN offs |-> get(timeValues, time - offs[k])]
        present == SelectSeq(maybeValues, LAMBDA v : v # <<>>)
        flows == [k \in DOMAIN present |-> present[k][1].FLOW]
        speeds == [k \in DOMAIN present |-> present[k][1].SPEED]
    IN  TimeValue(safe_avg(flows), safe_avg(speeds))

\* get_correction that gives no correction
get_correction_none(offs, timeValues, knownTime) == TimeValue(R(0), R(0))

get_correction(offs, timeValues, knownTime) ==
    LET knownValue == get(timeValues, knownTime)
        knownPred == smooth_predictor(offs, timeValues, knownTime)
    IN  IF knownValue # <<>>
        THEN TimeValue(SAFE_SUB(knownValue[1].FLOW, knownPred.FLOW),
                       SAFE_SUB(knownValue[1].SPEED, knownPred.SPEED))
        ELSE TimeValue(R(0), R(0))

\* the predictor of feedback_predictor_absolute(smooth_predictor(offsets),
\* knownTime): the value returned, and whether a fix raised
feedback_predictor_absolute(offs, knownTime, timeValues, time) ==
    LET primary == smooth_predictor(offs, timeValues, time)
        correction == get_correction(offs, timeValues, knownTime)
        primaryData == Data(NO_ORIG_DATA, NoDate, primary.FLOW, None,
                            primary.SPEED, None)
        doFlow == ~IsNone(primaryData.qPKW) /\ ~IsNone(correction.FLOW)
        flowFixed == IF doFlow
                     THEN FixData(primaryData, "qPKW",
                                  RAdd(primaryData.qPKW, correction.FLOW), 3600)
                     ELSE primaryData
        doSpeed == ~IsNone(flowFixed.vPKW) /\ ~IsNone(correction.SPEED)
        speedValue == RAdd(flowFixed.vPKW, correction.SPEED)
        speedFixed == IF doSpeed
                      THEN FixData(flowFixed, "vPKW", speedValue, 3600)
                      ELSE flowFixed
    IN  [time |-> time,
         raised |-> doSpeed /\ FixOutcome(flowFixed, "vPKW", speedValue, 3600) = "raise",
         value |-> TimeValue(speedFixed.qPKW, speedFixed.vPKW)]

\* ---- the calls of main that are checked

ExIntervals == {900, 3600}

MaxTargets == 2

\* the measurements at the last known time: none, plausible ones, one without
\* a flow, one far above and one far below the history
ExMeasured ==
    {<<>>, <<TimeValue(R(900), R(70))>>, <<TimeValue(R(830), R(40))>>,
     <<TimeValue(None, R(70))>>, <<TimeValue(R(5000), R(70))>>,
     <<TimeValue(R(0), R(0))>>, <<TimeValue(R(10), R(300))>>}

\* the history of the edge: for each of the three weeks at most one value that
\* only the first target time sees and at most one that only the last known
\* time sees
ExInit ==
    /\ exPc = "main"
    /\ exLocal = NoExLocal
    /\ exPred = <<>>
    /\ \E intervalLength \in ExIntervals, n \in 1 .. MaxTargets,
          a1 \in {<<>>, <<TimeValue(R(800), R(50))>>},
          a2 \in {<<TimeValue(R(820), R(50))>>, <<TimeValue(None, None)>>},
          a3 \in {<<>>, <<TimeValue(R(780), R(50))>>},
          k1 \in {<<>>, <<TimeValue(R(810), R(60))>>},
          k2 \in {<<TimeValue(R(810), R(60))>>, <<TimeValue(R(790), None)>>},
          known \in ExMeasured :
          LET start == 28 * DaySeconds
              target == start + intervalLength
              knownTime == start - intervalLength
              loaded ==
                  <<[time |-> target - TIME_OFFSETS[1] + 2 * intervalLength,
                     value |-> a1],
                    [time |-> target - TIME_OFFSETS[2] + 2 * intervalLength,
                     value |-> a2],
                    [time |-> target - TIME_OFFSETS[3] + 2 * intervalLength,
                     value |-> a3],
                    [time |-> knownTime - TIME_OFFSETS[1] - 2 * intervalLength,
                     value |-> k1],
                    [time |-> knownTime - TIME_OFFSETS[2] - 2 * intervalLength,
                     value |-> k2],
                    [time |-> knownTime, value |-> known]>>
              rows == {k \in DOMAIN loaded : loaded[k].value # <<>>}
          IN  exArgs =
                  [start |-> start,
                   end |-> start + n * intervalLength,
                   intervalLength |-> intervalLength,
                   timeValues |->
                       [t \in {loaded[k].time : k \in rows} |->
                            loaded[CHOOSE k \in rows : loaded[k].time = t].value[1]]]

exOthers == <<coreVars, rnVars, loVars, stVars, cpVars, smVars, xtVars>>

\* main, lines 186-204: the offsets, the predictor, the data loaded for the
\* edge and the target times
ExMain ==
    /\ exPc = "main"
    /\ exLocal' = [offsets |-> offsets(exArgs.intervalLength),
                   knownTime |-> exArgs.start - exArgs.intervalLength,
                   times |-> getIntervalEndsBetween(exArgs.start, exArgs.end,
                                                    exArgs.intervalLength)]
    /\ exPc' = "predict"
    /\ UNCHANGED <<exArgs, exPred, exOthers>>

\* predict_at_times: the predictor is called for the next target time
PredictAt ==
    /\ exPc = "predict"
    /\ exLocal.times # <<>>
    /\ LET prediction == feedback_predictor_absolute(exLocal.offsets,
                             exLocal.knownTime, exArgs.timeValues,
                             Head(exLocal.times))
       IN  /\ exPred' = Append(exPred, prediction)
           /\ exPc' = IF prediction.raised THEN "raised" ELSE "predict"
    /\ exLocal' = [exLocal EXCEPT !.times = Tail(@)]
    /\ UNCHANGED <<exArgs, exOthers>>

\* main, lines 205-220: the quality is estimated and the predictions are
\* written
ExWrite ==
    /\ exPc = "predict"
    /\ exLocal.times = <<>>
    /\ exPc' = "done"
    /\ UNCHANGED <<exArgs, exLocal, exPred, exOthers>>

ExtrapolationNext ==
    \/ ExMain
    \/ PredictAt
    \/ ExWrite

ExtrapolationStart ==
    /\ ExInit
    /\ FixIdle /\ WindowIdle /\ WriterIdle /\ FusionIdle /\ ReplayIdle
    /\ RoundIdle /\ SchedulerIdle /\ StepIdle /\ CopyIdle /\ SimIdle
    /\ ExtraIdle

ExtrapolationSpec == ExtrapolationStart /\ [][ExtrapolationNext]_vars

\* the history times of a time: 1, 2 and 3 weeks back, each with the slots
\* up to SMOOTHING_WIDTH before and after it
HistoryTimes(time) ==
    {time - 7 * w * DaySeconds + i * exArgs.intervalLength :
         w \in 1 .. 3, i \in (0 - SMOOTHING_WIDTH) .. SMOOTHING_WIDTH}

\* the history times of a time that have a value of the attribute
HistoryWith(time, attr) ==
    {h \in HistoryTimes(time) \cap DOMAIN exArgs.timeValues :
         ~IsNone(exArgs.timeValues[h][attr])}

RECURSIVE TotalOver(_, _)
TotalOver(times, attr) ==
    IF times = {} THEN R(0)
    ELSE LET h == CHOOSE x \in times : TRUE
         IN  RAdd(exArgs.timeValues[h][attr], TotalOver(times \ {h}, attr))

\* primary(time): the average of the history values that are there
Primary(time, attr) ==
    RDiv(TotalOver(HistoryWith(time, attr), attr),
         R(Cardinality(HistoryWith(time, attr))))

LastKnown == exArgs.start - exArgs.intervalLength

\* primary(t), primary(tk) and measured(tk) exist for the attribute
HasFeedback(time, attr) ==
    /\ HistoryWith(time, attr) # {}
    /\ HistoryWith(LastKnown, attr) # {}
    /\ LastKnown \in DOMAIN exArgs.timeValues
    /\ ~IsNone(exArgs.timeValues[LastKnown][attr])

\* primary(t) + D with D = measured(tk) - primary(tk)
Corrected(time, attr) ==
    RAdd(Primary(time, attr),
         RSub(exArgs.timeValues[LastKnown][attr], Primary(LastKnown, attr)))

\* the corrected value passes the checks of Data.fix for an interval of one
\* hour; a speed is checked against the flow that is returned with it
PassesFix(p, attr) ==
    FixOutcome([Data(NO_ORIG_DATA, NoDate, None, None, None, None)
                    EXCEPT !.qPKW = p.value.FLOW],
               IF attr = "FLOW" THEN "qPKW" ELSE "vPKW",
               Corrected(p.time, attr), 3600) = "true"

-----------------------------------------------------------------------------
(* replay_loops.py: the children when the orchestrator's main returns *)

\* C28: when the orchestrator's main returns, neither child process is left
\* suspended by SIGSTOP: the child that outlives the other one is resumed
\* until it finishes too.
NoChildLeftStopped ==
    roPc = "done" => (rpDet.status # "stopped" /\ rpSim.status # "stopped")

-----------------------------------------------------------------------------
(* simulationRun.py: the begin of a simulation that starts empty *)

\* C29: whenever the configuration written by an iteration has no load-state,
\* the simulation begins at startTime - prefirst; startTime - overlap is the
\* begin only of a simulation that loads a state.
EmptyStartBeginsAtPrefirst ==
    ConfigWritten =>
        IF smCfg.loadState = NoTime
        THEN smCfg.begin = daySecond(smStart - SimPrefirst)
        ELSE smCfg.begin = daySecond(smStart - smOpt.overlap)

-----------------------------------------------------------------------------
(* correctDetector.py: what fixDate does to the records stored before *)

\* the slot of the date of the row handled last
OwnSlot == dateToIndex(hLast.date, hLast.zero)

\* the list of the row's detector before the row was handled
ListBefore == hLast.data[hLast.row.det]

InList(l, i) == i >= 0 /\ i < Len(l)

\* the slot before the row's slot, the slot itself and the slot after it hold
\* records
ThreeSlotsOccupied ==
    /\ InList(ListBefore, OwnSlot - 1) /\ Occupied(ListBefore, OwnSlot - 1)
    /\ InList(ListBefore, OwnSlot) /\ Occupied(ListBefore, OwnSlot)
    /\ InList(ListBefore, OwnSlot + 1) /\ Occupied(ListBefore, OwnSlot + 1)

\* C24: a raw row whose slot is free is stored there; a row whose slot is
\* occupied is stored one slot forward, and only if that slot is free; unless
\* the previous, the own and the next slot are all occupied, every record
\* stored before is afterwards in the slot it was in.
CollisionKeepsRecords ==
    hLast.op \in {"stored", "skipped"} =>
        /\ (InList(ListBefore, OwnSlot) /\ ~Occupied(ListBefore, OwnSlot))
               => hLast.index = OwnSlot
        /\ (hLast.op = "stored" /\ InList(ListBefore, OwnSlot)
              /\ Occupied(ListBefore, OwnSlot))
               => /\ hLast.index = OwnSlot + 1
                  /\ ~Occupied(ListBefore, OwnSlot + 1)
        /\ ~ThreeSlotsOccupied
               => \A i \in 0 .. (Len(ListBefore) - 1) :
                      Occupied(ListBefore, i)
                          => At(wData[hLast.row.det], i) = At(ListBefore, i)

-----------------------------------------------------------------------------
(* One call with a forecast after a long correction interval *)

ForecastRows == 3
ForecastCorrect == 8
ForecastSlots == 4

ForecastReadings == {<<10, 2, 50, 40>>}

ForecastNext ==
    \/ Calls(1, StartJumps, {ForecastCorrect}, 1..ForecastSlots)
    \/ RowsInOrder(ForecastRows, ForecastReadings, {0}, ForecastCorrect)
    \/ Interpolate
    \/ Forecast
    \/ Write

ForecastSpec == WindowStart /\ [][ForecastNext]_vars

\* the range of the pass that ran last, as indices
LastPassStart ==
    dateToIndex(IF hLast.op = "forecast" THEN wArgs.correctEnd
                ELSE wArgs.correctStart, wZero)

LastPassEnd ==
    dateToIndex(IF hLast.op = "forecast" THEN wArgs.forecastEnd
                ELSE wArgs.correctEnd, wZero)

\* the list of a detector as polynomialFix got it in the pass that ran last:
\* after the unfix loop of fixGaps
LastPassList(det) ==
    IF hLast.op = "forecast"
    THEN UnfixRange(hLast.data[det], LastPassStart, LastPassEnd, FORECAST_DATA)
    ELSE hLast.data[det]

LargeGapsUnfilled ==
    \A det \in DOMAIN wData : \A attr \in AttrSet :
        \A gap \in find_gaps(LastPassList(det), attr, LastPassStart, LastPassEnd) :
            (gap[2] - gap[1]) * UpdateInterval > MAX_GAP_TIME
                => \A x \in gap[1] .. (gap[2] - 1) :
                       IsNone(Rec(wData[det], x)[attr])

InterpolationSkipsLargeGaps ==
    hLast.op = "interpolated" => LargeGapsUnfilled


\* the shrinking of a forecast gap follows the rule: the final size is the
\* largest one with at least as many valid unfixed points in the 2*size slots
\* before the gap, and a gap with fewer than two of them is left alone
ForecastShrinkRule ==
    hLast.op = "forecast" =>
        \A det \in DOMAIN wData : \A attr \in AttrSet :
            \A gap \in find_gaps(LastPassList(det), attr, LastPassStart, LastPassEnd) :
                LET l == LastPassList(det)
                    plan == GapPlan(l, attr, gap[1], gap[2], TRUE)
                    size == plan.gapEnd - gap[1]
                    support(s) == valid_indices(l, attr, gap[1] - 2 * s, gap[1])
                IN  /\ Cardinality(support(size)) >= size
                    /\ size < gap[2] - gap[1]
                          => Cardinality(support(size + 1)) < size + 1
                    /\ Cardinality(support(size)) < 2
                          => \A x \in gap[1] .. (gap[2] - 1) :
                                 IsNone(Rec(wData[det], x)[attr])

-----------------------------------------------------------------------------
(* Two calls, the second one re-loading what the first one wrote *)

ReloadCalls == 2
ReloadRows == 3
ReloadSlots == 3

\* a reading without errors and one with error 6 for PKW (flow, speed 0)
ReloadReadings == {<<10, 2, 50, 40>>, <<10, 2, 0, 40>>}

ReloadNext ==
    \/ Calls(ReloadCalls, {ReloadSlots}, {ReloadSlots}, {0})
    \/ RowsInOrder(ReloadRows, ReloadReadings, {0}, ReloadSlots)
    \/ Interpolate
    \/ Forecast
    \/ Write

ReloadSpec == WindowStart /\ [][ReloadNext]_vars

AttrPosition(attr) ==
    CASE attr = "qPKW" -> 1 [] attr = "qLKW" -> 2 [] attr = "vPKW" -> 3
      [] OTHER -> 4

\* the value of attr in slot index of the list is the one the detector
\* reported for the time of the slot
Measured(det, l, index, attr) ==
    LET key == <<det, SlotTime(wZero, index)>>
    IN  /\ key \in DOMAIN hReported
        /\ hReported[key][AttrPosition(attr)] = Rec(l, index)[attr]

\* C23: every support point of a polynomial fit is a value the detector
\* reported, never a value the gap filler produced, be it earlier in the pass,
\* in a previous call, or in a row re-loaded from the corrected-data table.
SupportIsMeasured ==
    hLast.op \in {"interpolated", "forecast"} =>
        \A det \in DOMAIN wData : \A attr \in AttrSet :
            \A gap \in find_gaps(LastPassList(det), attr, LastPassStart, LastPassEnd) :
                LET l == LastPassList(det)
                IN  \A i \in GapPlan(l, attr, gap[1], gap[2],
                                     hLast.op = "forecast").x :
                        Measured(det, l, i, attr)

\* without a re-load the support points are values the detector reported
SupportIsMeasuredWithoutReload ==
    ~wArgs.isFirst \/ wArgs.calls = 1 => SupportIsMeasured

-----------------------------------------------------------------------------
(* evalDetector.py: Data.check on one raw record *)

\* the values a detector reports: none, negative, zero, plausible ones, flows
\* above 2500 per hour and above the flow the speed allows, speeds above the
\* maximum and above 1.25 times the maximum
CheckFlows == {None, R(-1), R(0), R(10), R(500), R(700)}
CheckTruckFlows == {None, R(0), R(2), R(700)}
CheckSpeeds == {None, R(-1), R(0), R(1), R(50), R(300), R(320)}
CheckTruckSpeeds == {None, R(0), R(40), R(130), R(160)}
CheckIntervals == {300, 900}

CheckInit ==
    /\ ckPc = "start"
    /\ \E qKFZ \in CheckFlows, qLKW \in CheckTruckFlows, vPKW \in CheckSpeeds,
          vLKW \in CheckTruckSpeeds, u \in CheckIntervals, hasLKW \in BOOLEAN :
          ckIn = [data |-> Data(1, NoDate, qKFZ, qLKW, vPKW, vLKW),
                  interval |-> u, hasLKW |-> hasLKW]
    /\ ckOut = <<>>

\* identify_errors: data.check(updateInterval, hasLKW)
Check ==
    /\ ckPc = "start"
    /\ ckOut' = check(ckIn.data, ckIn.interval, ckIn.hasLKW)
    /\ ckPc' = "checked"
    /\ UNCHANGED <<ckIn, coreVars, rnVars, loVars, stVars, cpVars, smVars, exVars,
                   dyVars, agVars>>

CheckNext == Check

CheckStart ==
    /\ CheckInit
    /\ FixIdle /\ WindowIdle /\ WriterIdle /\ FusionIdle /\ ReplayIdle
    /\ RoundIdle /\ SchedulerIdle /\ StepIdle /\ CopyIdle /\ SimIdle
    /\ ExtrapolationIdle /\ DynamicIdle /\ AggregateIdle

CheckSpec == CheckStart /\ [][CheckNext]_vars

\* one of the errors 1, 2, 5, 7, 8 holds for the flow q and the speed v
FlowErrorHolds(q, v, vMax, l, u) ==
    \/ IsNone(q)
    \/ RLt(q, R(0))
    \/ RGt(FlowPerHour(q, u), R(MAX_FLOW))
    \/ /\ ~IsNone(v)
       /\ \/ RLt(v, R(0))
          \/ RGt(v, R(0)) /\ IsZero(q)
          \/ RGt(v, R(vMax))
          \/ RGt(v, R(0)) /\ RGt(FlowPerHour(q, u), maxFlowPerHour(v, l))

\* one of the errors 6, 9 holds
SpeedErrorHolds(q, v, maxLaneSpeed) ==
    /\ ~IsNone(q)
    /\ ~IsNone(v)
    /\ \/ RGt(q, R(0)) /\ IsZero(v)
       \/ SpeedTooHigh(v, maxLaneSpeed)

\* the record after check has the values the classification asks for
TypeAsStated(type) ==
    LET q == ckIn.data[FlowAttr(type)]
        v == ckIn.data[SpeedAttr(type)]
    IN  IF FlowErrorHolds(q, v, MAX_SPEED(type), LENGTH(type), ckIn.interval)
        THEN IsNone(ckOut[FlowAttr(type)]) /\ IsNone(ckOut[SpeedAttr(type)])
        ELSE SpeedErrorHolds(q, v, MAX_SPEED(type))
                 => ckOut[FlowAttr(type)] = q /\ IsNone(ckOut[SpeedAttr(type)])

RecordAsStated ==
    TypeAsStated("PKW") /\ (ckIn.hasLKW => TypeAsStated("LKW"))

\* C25: per vehicle type, check nulls flow and speed when one of the errors
\* 1, 2, 5, 7, 8 holds (7: hourly flow above MAX_FLOW or speed above vMax), and
\* otherwise nulls only the speed and keeps the flow when error 6 or 9 holds.
ClassifiedAsStated == ckPc = "checked" => RecordAsStated

\* the same for the records that report a speed wherever they report a flow
ClassifiedAsStatedWithSpeed ==
    (/\ ckPc = "checked"
     /\ \A type \in {"PKW", "LKW"} :
            IsNone(ckIn.data[FlowAttr(type)]) \/ ~IsNone(ckIn.data[SpeedAttr(type)]))
        => RecordAsStated

\* a flow above MAX_FLOW per hour reported without a speed
HighFlowWithoutSpeed ==
    /\ ckPc = "checked"
    /\ ~IsNone(ckIn.data.qPKW)
    /\ IsNone(ckIn.data.vPKW)
    /\ RGt(FlowPerHour(ckIn.data.qPKW, ckIn.interval), R(MAX_FLOW))

-----------------------------------------------------------------------------
(* routeDistributions.py: the dynamic route probes *)

MaxDynCalls == 3
MaxDynRows == 2

\* qualityThreshold of the loop options
DynOptions == [qualityThreshold |-> 50]

\* setting.edges, the edge ids of the database and the map from database
\* edges to simulation edges
SettingEdges == {"e1", "e2"}
DatabaseEdges == {"e1", "e2", "x1", "x9"}
reverseEdgeMap == [e \in {"x1"} |-> "e1"]

\* the qualities of the rows, whole numbers (int(quality) changes nothing)
DynQualities == {30, 70}

\* the results of the query: rows (edge_id, quality) in the order of the cursor
DynRowSets ==
    UNION {[1..n -> DatabaseEdges \X DynQualities] : n \in 0..MaxDynRows}

\* the first call is made at two in the morning, the later ones six hours or a
\* day after the one before
DynTimes ==
    IF dyLast.calls = 0 THEN {2 * 3600}
    ELSE {dyLast.time + 6 * 3600, dyLast.time + DaySeconds}

\* datetime.hour
hourOf(time) == daySecond(time) \div 3600

\* checkReset(isFirst, time): whether a reset takes place
checkReset(isFirst, time) ==
    \/ isFirst
    \/ /\ LAST_RESET # NoTime
       /\ time - LAST_RESET >= DaySeconds
       /\ hourOf(time) < 4

\* edge_id = reverseEdgeMap.get(edge_id, edge_id)
SimulationEdge(edge_id) ==
    IF edge_id \in DOMAIN reverseEdgeMap THEN reverseEdgeMap[edge_id] ELSE edge_id

\* the loop over the rows from row number k on
RECURSIVE DynRows(_, _, _, _)
DynRows(st, rows, k, reset) ==
    IF k > Len(rows) THEN st
    ELSE LET edge_id == SimulationEdge(rows[k][1])
             quality == rows[k][2]
             next == IF edge_id \notin SettingEdges THEN st
                     ELSE IF reset /\ quality < DynOptions.qualityThreshold
                          THEN [st EXCEPT !.invalid = @ \cup {edge_id}]
                     ELSE IF edge_id \notin st.invalid
                          THEN [st EXCEPT !.dynamic = @ \cup {edge_id}]
                     ELSE st
         IN  DynRows(next, rows, k + 1, reset)

\* the rows of the edges of the simulation, by simulation edge
Examined(rows) ==
    LET keep == {k \in 1..Len(rows) : SimulationEdge(rows[k][1]) \in SettingEdges}
    IN  {<<SimulationEdge(rows[k][1]), rows[k][2]>> : k \in keep}

\* generateDynamic(file, isFirst, intervalBegin, intervalEnd, routeInterval)
\* with the rows the query gives
generateDynamic(isFirst, intervalBegin, rows) ==
    LET reset == checkReset(isFirst, intervalBegin)
        start == IF reset THEN [dynamic |-> {}, invalid |-> {}]
                 ELSE [dynamic |-> DYNAMIC, invalid |-> INVALID]
        end == DynRows(start, rows, 1, reset)
    IN  /\ dyLast.calls < MaxDynCalls
        /\ DYNAMIC' = end.dynamic
        /\ INVALID' = end.invalid
        /\ LAST_RESET' = IF reset THEN intervalBegin ELSE LAST_RESET
        /\ dyFile' = end.dynamic
        /\ dyLast' = [calls |-> dyLast.calls + 1, time |-> intervalBegin,
                      isFirst |-> isFirst, reset |-> reset,
                      resetRows |-> IF reset THEN Examined(rows)
                                    ELSE dyLast.resetRows]
        /\ UNCHANGED <<coreVars, rnVars, loVars, stVars, cpVars, smVars, exVars,
                       ckVars, agVars>>

\* the calls of simulationRun.main: the first one starts empty
DynamicNext ==
    \E isFirst \in IF dyLast.calls = 0 THEN {TRUE} ELSE BOOLEAN,
       intervalBegin \in DynTimes, rows \in DynRowSets :
        generateDynamic(isFirst, intervalBegin, rows)

DynamicStart ==
    /\ DynamicIdle
    /\ FixIdle /\ WindowIdle /\ WriterIdle /\ FusionIdle /\ ReplayIdle
    /\ RoundIdle /\ SchedulerIdle /\ StepIdle /\ CopyIdle /\ SimIdle
    /\ ExtrapolationIdle /\ CheckIdle /\ AggregateIdle

DynamicSpec == DynamicStart /\ [][DynamicNext]_vars

\* the qualities of the edge in the data examined at the most recent reset
QualityAtReset(edge) == {r[2] : r \in {x \in dyLast.resetRows : x[1] = edge}}

\* the edge reached the threshold in the data of the most recent reset, and
\* was not below it there
QualifiedAtReset(edge) ==
    /\ QualityAtReset(edge) # {}
    /\ \A q \in QualityAtReset(edge) : q >= DynOptions.qualityThreshold

\* C26: after any sequence of calls, every edge in DYNAMIC, and every edge with
\* a routeProbe in the file, reached qualityThreshold in the data examined at
\* the most recent reset and was not below it at that reset.
DynamicOnlyQualified ==
    \A edge \in DYNAMIC \cup dyFile : QualifiedAtReset(edge)

\* the rows of the most recent reset have one quality for each edge
OneQualityPerEdge ==
    \A edge \in SettingEdges : Cardinality(QualityAtReset(edge)) <= 1

\* right after a reset whose data has one quality for each edge, DYNAMIC holds
\* the edges that reached the threshold
ResetKeepsQualified ==
    (dyLast.calls > 0 /\ dyLast.reset /\ OneQualityPerEdge)
        => /\ DynamicOnlyQualified
           /\ \A edge \in SettingEdges : QualifiedAtReset(edge) => edge \in DYNAMIC


\* the same for data with one quality for each edge at the most recent reset
DynamicOnlyQualifiedOneQuality == OneQualityPerEdge => DynamicOnlyQualified

-----------------------------------------------------------------------------
(* aggregateData.py: aggregateFCD *)

\* the observations lie on a grid of 150 seconds after the start
MaxFcdSlots == 8

FcdPeriods == {300, 600}
FcdLengths == {300, 600}

FcdTimes(start) == {start + 150 * k : k \in 1..MaxFcdSlots}

\* aggregateFCD(start, end, period, intervalLength, tlsWait) begins: one
\* reader, nextInterval and nextPeriod; the rows of _getFilteredFCD are sorted
\* by time
FcdInit ==
    /\ agPc = "rows"
    /\ \E period \in FcdPeriods, intervalLength \in FcdLengths,
          times \in SUBSET FcdTimes(3600) :
          /\ agArgs = [start |-> 3600, period |-> period,
                       intervalLength |-> intervalLength, times |-> times]
          /\ agLocal = [detReaders |-> <<{}>>,
                        nextInterval |-> 3600 + intervalLength,
                        nextPeriod |-> 3600 + period, rows |-> 0]
    /\ agWritten = <<>>

\* the times of the rows not handled yet
FcdRemaining ==
    LET handled == {t \in agArgs.times :
                       Cardinality({u \in agArgs.times : u <= t}) <= agLocal.rows}
    IN  agArgs.times \ handled

\* insertAggregated(conn, "fcd", reader, nextInterval, intervalLength, ...):
\* the interval end and the observations of the reader
Inserted(written, reader, end) == Append(written, [end |-> end, obs |-> reader])

\* while time > nextInterval and len(detReaders) > 0
RECURSIVE PopReaders(_, _, _)
PopReaders(st, time, period) ==
    IF time > st.nextInterval /\ Len(st.detReaders) > 0
    THEN PopReaders([detReaders |-> Tail(st.detReaders),
                     nextInterval |-> st.nextInterval + period,
                     nextPeriod |-> st.nextPeriod,
                     written |-> Inserted(st.written, Head(st.detReaders),
                                          st.nextInterval)],
                    time, period)
    ELSE st

\* while time > nextPeriod
RECURSIVE AppendReaders(_, _, _)
AppendReaders(st, time, period) ==
    IF time > st.nextPeriod
    THEN AppendReaders([st EXCEPT !.detReaders = Append(@, {}),
                                  !.nextPeriod = @ + period],
                       time, period)
    ELSE st

fcdOthers == <<coreVars, rnVars, loVars, stVars, cpVars, smVars, exVars, ckVars,
               dyVars>>

\* one pass of the loop over the rows
FcdRow ==
    /\ agPc = "rows"
    /\ FcdRemaining # {}
    /\ LET time == CHOOSE t \in FcdRemaining : \A u \in FcdRemaining : t <= u
           start == [detReaders |-> agLocal.detReaders,
                     nextInterval |-> agLocal.nextInterval,
                     nextPeriod |-> agLocal.nextPeriod, written |-> agWritten]
           popped == PopReaders(start, time, agArgs.period)
           appended == AppendReaders(popped, time, agArgs.period)
       IN  /\ agLocal' = [detReaders |->
                              [k \in 1..Len(appended.detReaders) |->
                                  appended.detReaders[k] \cup {time}],
                          nextInterval |-> appended.nextInterval,
                          nextPeriod |-> appended.nextPeriod,
                          rows |-> agLocal.rows + 1]
           /\ agWritten' = appended.written
    /\ UNCHANGED <<agPc, agArgs, fcdOthers>>

\* after the loop: insertAggregated(conn, "fcd", detReaders.pop(0), ...);
\* pop(0) of an empty list raises IndexError
FcdClose ==
    /\ agPc = "rows"
    /\ FcdRemaining = {}
    /\ IF agLocal.detReaders = <<>>
       THEN /\ agPc' = "raised"
            /\ UNCHANGED <<agLocal, agWritten>>
       ELSE /\ agPc' = "done"
            /\ agLocal' = [agLocal EXCEPT !.detReaders = Tail(@)]
            /\ agWritten' = Inserted(agWritten, Head(agLocal.detReaders),
                                     agLocal.nextInterval)
    /\ UNCHANGED <<agArgs, fcdOthers>>

FcdNext == FcdRow \/ FcdClose

FcdStart ==
    /\ FcdInit
    /\ FixIdle /\ WindowIdle /\ WriterIdle /\ FusionIdle /\ ReplayIdle
    /\ RoundIdle /\ SchedulerIdle /\ StepIdle /\ CopyIdle /\ SimIdle
    /\ ExtrapolationIdle /\ CheckIdle /\ DynamicIdle

FcdSpec == FcdStart /\ [][FcdNext]_vars

\* C30: every observation of a written fcd interval lies in the interval
\* (e - intervalLength, e], whatever the gaps between the observations.
ObservationsInInterval ==
    \A k \in 1..Len(agWritten) : \A t \in agWritten[k].obs :
        /\ agWritten[k].end - agArgs.intervalLength < t
        /\ t <= agWritten[k].end

\* no period without an observation, and intervals of at least a period
FcdWithoutGaps ==
    /\ agArgs.intervalLength >= agArgs.period
    /\ \A t \in agArgs.times \cup {agArgs.start} :
           \/ \A u \in agArgs.times : u <= t
           \/ \E u \in agArgs.times : t < u /\ u <= t + agArgs.period

\* without gaps the observations lie in the intervals they are written for
ObservationsInIntervalWithoutGaps == FcdWithoutGaps => ObservationsInInterval

-----------------------------------------------------------------------------
(* main.py: _startLoop without the clock, for any iteration function *)

\* start times before, at and after the end time, at the turn of the day
TerminationConfigs ==
    {[begin |-> b, end |-> e, repeat |-> r, delay |-> 0, now |-> b,
      firstlookback |-> 3600, lookback |-> 1800] :
        b \in {82800, 84600, 86400, 88200}, e \in {86400, 88200},
        r \in {1800, 3600}}

TerminationInit ==
    /\ loPc = "init"
    /\ loCfg \in TerminationConfigs
    /\ loStart = 0
    /\ loNow = loCfg.now
    /\ loEndReached = FALSE
    /\ loContinue = FALSE
    /\ loCall = NoCall
    /\ loMain = NoMain
    /\ loPrev = NoPrev

\* how a call of the iteration function ends: it returns a true value, it
\* returns False (simulationRun.main for a rejected timing), or it raises
IterationOutcomes == {"true", "false", "raise"}

\* doContinue = mainFunc(...), or the except clause of _startLoop
IterationEnds(outcome) ==
    IF outcome = "raise"
    THEN loPc' = "ended" /\ UNCHANGED loContinue
    ELSE loPc' = "while" /\ loContinue' = (outcome = "true")

loRest == <<loCfg, loNow, loCall, loMain, loPrev, wZero, wData, errorOnLastRun,
            loOthers>>

\* doContinue = mainFunc(True, False, loopDir, options)
FirstIteration ==
    /\ loPc = "loop"
    /\ \E outcome \in IterationOutcomes : IterationEnds(outcome)
    /\ UNCHANGED <<loStart, loEndReached, loRest>>

\* one pass of "while doContinue and setting.startTime < setting.endTime"
NextIteration ==
    /\ WhileHolds
    /\ loStart' = loStart + loCfg.repeat
    /\ loEndReached' = (loEndReached \/ loStart + loCfg.repeat >= loCfg.end)
    /\ \E outcome \in IterationOutcomes : IterationEnds(outcome)
    /\ UNCHANGED loRest

\* "Trying again, new loop start in 60 seconds...", "...restart now:"
TryAgain ==
    /\ loPc = "ended"
    /\ ~loEndReached
    /\ loPc' = "loop"
    /\ UNCHANGED <<loStart, loEndReached, loContinue, loRest>>

TerminationNext ==
    \/ _init
    \/ FirstIteration
    \/ NextIteration
    \/ LoopEnded
    \/ TryAgain
    \/ Exit

TerminationStart ==
    /\ TerminationInit
    /\ FixIdle /\ WindowIdle /\ WriterIdle /\ FusionIdle /\ ReplayIdle
    /\ RoundIdle /\ StepIdle /\ CopyIdle /\ SimIdle /\ ExtrapolationIdle
    /\ ExtraIdle

\* the process runs on: a sleep ends, a call of the iteration function ends
TerminationSpec ==
    TerminationStart /\ [][TerminationNext]_vars /\ WF_vars(TerminationNext)

\* C27: the scheduler terminates: it prints "End time reached, exiting." and
\* returns, for every start time and whatever the iterations return or raise.
SchedulerTerminates == <>(loPc = "exit")

\* once the start time has reached the end time the scheduler exits
EndReachedLeadsToExit == loEndReached ~> (loPc = "exit")

\* the start time is at or after the end time when the loop starts
StartsAfterEnd == loPc = "loop" /\ loStart >= loCfg.end /\ ~loEndReached


\* with a start time at or after the end time no step sets endTimeReached or
\* leaves the outer loop
NoExitAfterEnd ==
    [][(loPc # "init" /\ loStart >= loCfg.end /\ ~loEndReached)
           => (loPc' # "exit" /\ ~loEndReached')]_vars

=============================================================================
